---- MODULE Spec2Model ----
(***************************************************************************)
(* Workflow graph execution engine: graph registry and lazy compiler       *)
(* (GraphBuilderService), thread lifecycle (WorkflowOrchestratorService,   *)
(* InMemoryThreadStoreRepository) and the execute-new request path         *)
(* (AppController, LangGraphService) over the LangGraph runtime.           *)
(***************************************************************************)
EXTENDS Integers, Sequences, FiniteSets, TLC

VARIABLES
    moduleInit,            \* TRUE while onModuleInit is still loading graphs.json
    dynamicGraphBuilders,  \* GraphBuilderService.dynamicGraphBuilders
    dynamicGraphs,         \* GraphBuilderService.dynamicGraphs (compiled cache)
    graphSelectionWords,   \* GraphBuilderService.graphSelectionWords, in key order
    compiles,              \* history: successful builder.compile() calls per name
    registrationOrder,     \* history: names in the order of their first registration
    stepMap,               \* GraphBuilderService.stepMap: step name -> StepData
    lastOp,                \* history: the last registry operation and its outcome
    store,                 \* InMemoryThreadStoreRepository.store, in insertion order
    clock,                 \* Date.now()
    checkpoints,           \* MemorySaver: latest checkpoint per thread id
    requests               \* the execute-new requests in flight

registryVars == <<moduleInit, dynamicGraphBuilders, dynamicGraphs,
                  graphSelectionWords, compiles, registrationOrder, stepMap, lastOp>>
engineVars == <<store, clock, checkpoints, requests>>
vars == <<moduleInit, dynamicGraphBuilders, dynamicGraphs, graphSelectionWords,
          compiles, registrationOrder, stepMap, lastOp, store, clock, checkpoints,
          requests>>

-----------------------------------------------------------------------------
(* Bounds *)

MaxCompiles == 2
MaxReq == 2
MaxClock == 1
MaxRecords == 3

-----------------------------------------------------------------------------
(* Sentinels, node functions and state annotations *)

START == "__start__"
END == "__end__"

NoBuilder == [none |-> "builder"]
NoGraph == [none |-> "graph"]
NoError == "none"

\* Methods of GraphBuilderService.prototype that graphs.json lists as nodes.
nodeFuctionMap ==
    {"inputAnalysisNode", "awaitApprovalNode", "synthesisNode",
     "impactAnalysisNode",
     "concurrentInputAnalysisNode", "concurrentNoveltyAnalysisNode",
     "concurrentFeasibilityAnalysisNode", "concurrentImpactAnalysisNode",
     "concurrentSynthesisNode", "concurrentAwaitApprovalNode"}

\* The keys of stepMap; reviewNode is no node function.
StepNames == nodeFuctionMap \cup {"reviewNode"}

\* The step names of the bodies of POST /update-node.
UpdatedStepNames ==
    {"inputAnalysisNode", "impactAnalysisNode", "concurrentImpactAnalysisNode", "reviewNode"}

NoStepData == [model |-> "undefined", temperature |-> "undefined"]

\* The StepData dynamicLoadNodes stores for each node of graphs.json.
LoadedStepData == [model |-> "gpt-4", temperature |-> "0.7"]

\* The StepData of the bodies of POST /update-node.
StepDatas ==
    {[model |-> "gpt-5", temperature |-> "0.4"],
     [model |-> "gpt-4o", temperature |-> "0.9"]}

\* stepMap after dynamicLoadNodes: an entry for each registered node function.
LoadedSteps ==
    [n \in StepNames |-> IF n \in nodeFuctionMap THEN LoadedStepData ELSE NoStepData]

\* The key under which a node function reads its StepData; "" for a node
\* function that calls no LLM.
StepKey(node) ==
    CASE node \in {"inputAnalysisNode", "impactAnalysisNode",
                   "concurrentInputAnalysisNode", "concurrentNoveltyAnalysisNode",
                   "concurrentFeasibilityAnalysisNode"} -> node
      [] node = "concurrentImpactAnalysisNode" -> "impactAnalysisNode"
      [] OTHER -> ""

annotationsMap ==
    {"ResearchGraphAnnotation", "MonetizationGraphAnnotation",
     "ConcurrentResearchGraphAnnotation", "DefaultGraphAnnotation"}

\* "7" is a graph name that is an integer index as an object key.
GraphNames == {"dynamicShortGraph", "concurrentResearchGraph", "7"}

-----------------------------------------------------------------------------
(* Graph specs that graphs.json or POST /add-graph may carry *)

ShortShape ==
    [nodes |-> <<"inputAnalysisNode", "awaitApprovalNode">>,
     edges |-> << <<START, "inputAnalysisNode">>,
                  <<"inputAnalysisNode", "awaitApprovalNode">>,
                  <<"awaitApprovalNode", END>> >>]

\* The approval gate is followed by a node.
ApprovalShape ==
    [nodes |-> <<"inputAnalysisNode", "awaitApprovalNode", "synthesisNode">>,
     edges |-> << <<START, "inputAnalysisNode">>,
                  <<"inputAnalysisNode", "awaitApprovalNode">>,
                  <<"awaitApprovalNode", "synthesisNode">>,
                  <<"synthesisNode", END>> >>]

SingleShape ==
    [nodes |-> <<"inputAnalysisNode">>,
     edges |-> << <<START, "inputAnalysisNode">>,
                  <<"inputAnalysisNode", END>> >>]

ConcurrentShape ==
    [nodes |-> <<"concurrentInputAnalysisNode", "concurrentNoveltyAnalysisNode",
                 "concurrentFeasibilityAnalysisNode",
                 "concurrentImpactAnalysisNode", "concurrentSynthesisNode",
                 "concurrentAwaitApprovalNode">>,
     edges |-> << <<START, "concurrentInputAnalysisNode">>,
                  <<"concurrentInputAnalysisNode", "concurrentNoveltyAnalysisNode">>,
                  <<"concurrentInputAnalysisNode", "concurrentFeasibilityAnalysisNode">>,
                  <<"concurrentInputAnalysisNode", "concurrentImpactAnalysisNode">>,
                  <<"concurrentNoveltyAnalysisNode", "concurrentSynthesisNode">>,
                  <<"concurrentFeasibilityAnalysisNode", "concurrentSynthesisNode">>,
                  <<"concurrentImpactAnalysisNode", "concurrentSynthesisNode">>,
                  <<"concurrentSynthesisNode", "concurrentAwaitApprovalNode">>,
                  <<"concurrentAwaitApprovalNode", END>> >>]

\* An edge ends at awaitApprovalNode, which is a registered node function
\* but is not in this spec's node list.
DanglingEdgeShape ==
    [nodes |-> <<"inputAnalysisNode">>,
     edges |-> << <<START, "inputAnalysisNode">>,
                  <<"inputAnalysisNode", "awaitApprovalNode">>,
                  <<"awaitApprovalNode", END>> >>]

\* The node list names a node for which no node function is registered.
UnregisteredNodeShape ==
    [nodes |-> <<"inputAnalysisNode", "reviewNode">>,
     edges |-> << <<START, "inputAnalysisNode">>,
                  <<"inputAnalysisNode", "reviewNode">>,
                  <<"reviewNode", END>> >>]

\* An edge starts at END.
EndStartShape ==
    [nodes |-> <<"inputAnalysisNode">>,
     edges |-> << <<START, "inputAnalysisNode">>,
                  <<END, "inputAnalysisNode">> >>]

\* A spec without selectionWords.
NoSelectionWords == <<"__undefined__">>

\* "" stands for a spec without annotationType (undefined and "" are both falsy).
GraphSpec(name, annotationType, shape, selectionWords) ==
    [name |-> name, annotationType |-> annotationType, nodes |-> shape.nodes,
     edges |-> shape.edges, selectionWords |-> selectionWords]

ShortGraphSpecs ==
    {GraphSpec("dynamicShortGraph", "DefaultGraphAnnotation", ShortShape, w) :
        w \in {<<"@dynamic-short">>, NoSelectionWords}}
    \cup {GraphSpec("dynamicShortGraph", "DefaultGraphAnnotation", s, <<"@dynamic-short">>) :
        s \in {SingleShape, DanglingEdgeShape, UnregisteredNodeShape, EndStartShape}}
    \cup {GraphSpec("dynamicShortGraph", a, ShortShape, <<"@dynamic-short">>) :
        a \in {"", "SummaryGraphAnnotation"}}

ConcurrentGraphSpecs ==
    {GraphSpec("concurrentResearchGraph", "ConcurrentResearchGraphAnnotation",
               ConcurrentShape, <<"concurrent">>)}
    \cup {GraphSpec("concurrentResearchGraph", "DefaultGraphAnnotation", s, <<"concurrent">>) :
        s \in {ShortShape, DanglingEdgeShape, UnregisteredNodeShape}}

NumberedGraphSpecs ==
    {GraphSpec("7", "DefaultGraphAnnotation", SingleShape, <<"review">>)}

GraphSpecs == ShortGraphSpecs \cup ConcurrentGraphSpecs \cup NumberedGraphSpecs

ShapeOf(item) == [nodes |-> item.nodes, edges |-> item.edges]

Range(s) == {s[i] : i \in DOMAIN s}

-----------------------------------------------------------------------------
(* GraphBuilderService: registration *)

\* Position, in key order, of `name` in a Record modelled as a sequence of
\* [name, words] entries; 0 when the key is absent.
KeyIndex(rec, name) ==
    IF \E i \in DOMAIN rec : rec[i].name = name
    THEN CHOOSE i \in DOMAIN rec : rec[i].name = name
    ELSE 0

\* The integer a key stands for when it is an integer index; -1 otherwise.
IndexOfKey(name) == IF name = "7" THEN 7 ELSE -1

\* The position a new key takes among the keys of an object: integer
\* indices come first in ascending order, then the other keys in the order
\* they were added.
InsertAt(rec, name) ==
    IF IndexOfKey(name) < 0 THEN Len(rec) + 1
    ELSE Cardinality({i \in DOMAIN rec :
                         /\ IndexOfKey(rec[i].name) >= 0
                         /\ IndexOfKey(rec[i].name) < IndexOfKey(name)}) + 1

\* rec[name] = words: an existing key keeps its position, a new key goes
\* to its place in the key order.
SetKey(rec, name, words) ==
    IF KeyIndex(rec, name) = 0
    THEN SubSeq(rec, 1, InsertAt(rec, name) - 1)
            \o <<[name |-> name, words |-> words]>>
            \o SubSeq(rec, InsertAt(rec, name), Len(rec))
    ELSE [rec EXCEPT ![KeyIndex(rec, name)] = [name |-> name, words |-> words]]

\* item.selectionWords ?? []
SelectionWordsOf(item) ==
    IF item.selectionWords = NoSelectionWords THEN <<>> ELSE item.selectionWords

Keys(rec) == {rec[i].name : i \in DOMAIN rec}

\* The first node of the list that has no entry in nodeFuctionMap; 0 when all have.
FirstUnregistered(nodes) ==
    IF \E i \in DOMAIN nodes : nodes[i] \notin nodeFuctionMap
    THEN CHOOSE i \in DOMAIN nodes :
             /\ nodes[i] \notin nodeFuctionMap
             /\ \A j \in 1..(i - 1) : nodes[j] \in nodeFuctionMap
    ELSE 0

\* builder.addEdge(startNode, endNode) with a single start key checks the
\* sentinels only; endpoints are checked against the node set by compile().
AddEdgeThrows(edge) == edge[1] = END \/ edge[2] = START

\* StateGraph built by registerGraphFromSpec.
Builder(item) ==
    [annotation |-> item.annotationType, nodes |-> item.nodes, edges |-> item.edges]

\* registerGraphFromSpec, with the selection words stored ahead of the node
\* lookup.
registerGraphFromSpecWordsFirst(builders, words, item) ==
    IF item.annotationType = "" \/ item.annotationType \notin annotationsMap
    THEN [outcome |-> "skipped", error |-> NoError,
          builders |-> builders, words |-> words]
    ELSE IF FirstUnregistered(item.nodes) # 0
    THEN [outcome |-> "thrown",
          error |-> item.nodes[FirstUnregistered(item.nodes)],
          builders |-> builders,
          words |-> SetKey(words, item.name, SelectionWordsOf(item))]
    ELSE IF \E i \in DOMAIN item.edges : AddEdgeThrows(item.edges[i])
    THEN [outcome |-> "thrown", error |-> "addEdge",
          builders |-> builders,
          words |-> SetKey(words, item.name, SelectionWordsOf(item))]
    ELSE [outcome |-> "registered", error |-> NoError,
          builders |-> [builders EXCEPT ![item.name] = Builder(item)],
          words |-> SetKey(words, item.name, SelectionWordsOf(item))]

\* registerGraphFromSpec that keeps the selection words a name already has.
registerGraphFromSpecKeepsWords(builders, words, item) ==
    IF item.annotationType = "" \/ item.annotationType \notin annotationsMap
    THEN [outcome |-> "skipped", error |-> NoError,
          builders |-> builders, words |-> words]
    ELSE IF FirstUnregistered(item.nodes) # 0
    THEN [outcome |-> "thrown",
          error |-> item.nodes[FirstUnregistered(item.nodes)],
          builders |-> builders, words |-> words]
    ELSE IF \E i \in DOMAIN item.edges : AddEdgeThrows(item.edges[i])
    THEN [outcome |-> "thrown", error |-> "addEdge",
          builders |-> builders, words |-> words]
    ELSE [outcome |-> "registered", error |-> NoError,
          builders |-> [builders EXCEPT ![item.name] = Builder(item)],
          words |-> IF KeyIndex(words, item.name) = 0
                    THEN SetKey(words, item.name, SelectionWordsOf(item))
                    ELSE words]

\* registerGraphFromSpec(item) on the registry (builders, words): the outcome
\* ("skipped": warn and return, "thrown", "registered"), the node the error
\* names, and the registry it leaves.  dynamicGraphs is not touched.
registerGraphFromSpec(builders, words, item) ==
    IF item.annotationType = ""
    THEN [outcome |-> "skipped", error |-> NoError,
          builders |-> builders, words |-> words]
    ELSE IF item.annotationType \notin annotationsMap
    THEN [outcome |-> "skipped", error |-> NoError,
          builders |-> builders, words |-> words]
    ELSE IF FirstUnregistered(item.nodes) # 0
    THEN [outcome |-> "thrown",
          error |-> item.nodes[FirstUnregistered(item.nodes)],
          builders |-> builders, words |-> words]
    ELSE IF \E i \in DOMAIN item.edges : AddEdgeThrows(item.edges[i])
    THEN [outcome |-> "thrown", error |-> "addEdge",
          builders |-> builders, words |-> words]
    ELSE [outcome |-> "registered", error |-> NoError,
          builders |-> [builders EXCEPT ![item.name] = Builder(item)],
          words |-> SetKey(words, item.name, SelectionWordsOf(item))]

-----------------------------------------------------------------------------
(* GraphBuilderService: lazy compilation *)

\* builder.compile() validates the graph: every edge endpoint other than
\* START/END is a node of the builder and every node is the target of an edge.
CompileValid(builder) ==
    /\ \A i \in DOMAIN builder.edges :
          /\ builder.edges[i][1] \in Range(builder.nodes) \cup {START}
          /\ builder.edges[i][2] \in Range(builder.nodes) \cup {END}
    /\ \A n \in Range(builder.nodes) :
          \E i \in DOMAIN builder.edges : builder.edges[i][2] = n

CompiledGraph(builder, instance) ==
    [instance |-> instance, annotation |-> builder.annotation,
     nodes |-> builder.nodes, edges |-> builder.edges]

\* getDynamicGraph that compiles on every call.
getDynamicGraphAlwaysCompile(graphs, builders, count, name) ==
    IF builders[name] # NoBuilder
    THEN IF CompileValid(builders[name])
         THEN [outcome |-> "compiled",
               graphs |-> [graphs EXCEPT
                             ![name] = CompiledGraph(builders[name], count[name] + 1)],
               result |-> CompiledGraph(builders[name], count[name] + 1)]
         ELSE [outcome |-> "thrown", graphs |-> graphs, result |-> NoGraph]
    ELSE [outcome |-> "not_found", graphs |-> graphs, result |-> NoGraph]

\* getDynamicGraph that caches an empty graph for a name without builder.
getDynamicGraphCachesMissing(graphs, builders, count, name) ==
    IF graphs[name] # NoGraph
    THEN [outcome |-> "cached", graphs |-> graphs, result |-> graphs[name]]
    ELSE IF builders[name] # NoBuilder
    THEN IF CompileValid(builders[name])
         THEN [outcome |-> "compiled",
               graphs |-> [graphs EXCEPT
                             ![name] = CompiledGraph(builders[name], count[name] + 1)],
               result |-> CompiledGraph(builders[name], count[name] + 1)]
         ELSE [outcome |-> "thrown", graphs |-> graphs, result |-> NoGraph]
    ELSE [outcome |-> "compiled",
          graphs |-> [graphs EXCEPT
                        ![name] = [instance |-> 0, annotation |-> "",
                                   nodes |-> <<>>, edges |-> <<>>]],
          result |-> [instance |-> 0, annotation |-> "", nodes |-> <<>>, edges |-> <<>>]]

\* getDynamicGraph(name): the outcome ("cached", "compiled", "thrown" by
\* compile(), "not_found": warn and return undefined), the cache it leaves and
\* the graph it returns.  count[name] numbers the instances compiled so far.
getDynamicGraph(graphs, builders, count, name) ==
    IF graphs[name] # NoGraph
    THEN [outcome |-> "cached", graphs |-> graphs, result |-> graphs[name]]
    ELSE IF builders[name] # NoBuilder
    THEN IF CompileValid(builders[name])
         THEN [outcome |-> "compiled",
               graphs |-> [graphs EXCEPT
                             ![name] = CompiledGraph(builders[name], count[name] + 1)],
               result |-> CompiledGraph(builders[name], count[name] + 1)]
         ELSE [outcome |-> "thrown", graphs |-> graphs, result |-> NoGraph]
    ELSE [outcome |-> "not_found", graphs |-> graphs, result |-> NoGraph]

-----------------------------------------------------------------------------
(* Registry operations *)

NoItem == [none |-> "item"]

Op(op, name, item, outcome, error, response, result) ==
    [op |-> op, name |-> name, item |-> item, outcome |-> outcome,
     error |-> error, response |-> response, result |-> result]

\* The names in the order of their first successful registration.
FirstRegistrations(order, name, outcome) ==
    IF outcome = "registered" /\ name \notin Range(order)
    THEN Append(order, name)
    ELSE order

RegistryInit ==
    /\ moduleInit = TRUE
    /\ dynamicGraphBuilders = [n \in GraphNames |-> NoBuilder]
    /\ dynamicGraphs = [n \in GraphNames |-> NoGraph]
    /\ graphSelectionWords = <<>>
    /\ compiles = [n \in GraphNames |-> 0]
    /\ registrationOrder = <<>>
    /\ stepMap = LoadedSteps
    /\ lastOp = Op("constructor", "", NoItem, "ok", NoError, "none", NoGraph)

\* One iteration of dynamicLoadGraphs: register an item of graphs.json; a
\* thrown error is logged and the loop goes on.
DynamicLoadGraphs(item) ==
    /\ moduleInit
    /\ LET r == registerGraphFromSpec(dynamicGraphBuilders, graphSelectionWords, item)
       IN /\ dynamicGraphBuilders' = r.builders
          /\ graphSelectionWords' = r.words
          /\ registrationOrder' = FirstRegistrations(registrationOrder, item.name, r.outcome)
          /\ lastOp' = Op("dynamicLoadGraphs", item.name, item, r.outcome, r.error,
                          "logged", NoGraph)
    /\ UNCHANGED <<moduleInit, dynamicGraphs, compiles, stepMap, engineVars>>

\* onModuleInit returns: the service starts to serve requests.
OnModuleInitDone ==
    /\ moduleInit
    /\ moduleInit' = FALSE
    /\ lastOp' = Op("onModuleInit", "", NoItem, "ok", NoError, "none", NoGraph)
    /\ UNCHANGED <<dynamicGraphBuilders, dynamicGraphs, graphSelectionWords,
                   compiles, registrationOrder, stepMap, engineVars>>

\* POST /add-graph: an error event is written to the response only when
\* registerGraphFromSpec throws.
ExecuteAddGraph(item) ==
    /\ ~moduleInit
    /\ LET r == registerGraphFromSpec(dynamicGraphBuilders, graphSelectionWords, item)
       IN /\ dynamicGraphBuilders' = r.builders
          /\ graphSelectionWords' = r.words
          /\ registrationOrder' = FirstRegistrations(registrationOrder, item.name, r.outcome)
          /\ lastOp' = Op("executeAddGraph", item.name, item, r.outcome, r.error,
                          IF r.outcome = "thrown" THEN "error" ELSE "empty", NoGraph)
    /\ UNCHANGED <<moduleInit, dynamicGraphs, compiles, stepMap, engineVars>>

\* A caller fetches the compiled graph of `name`.
GetDynamicGraph(name) ==
    /\ ~moduleInit
    /\ compiles[name] < MaxCompiles
    /\ LET r == getDynamicGraph(dynamicGraphs, dynamicGraphBuilders, compiles, name)
       IN /\ dynamicGraphs' = r.graphs
          /\ compiles' = IF r.outcome = "compiled"
                         THEN [compiles EXCEPT ![name] = @ + 1]
                         ELSE compiles
          /\ lastOp' = Op("getDynamicGraph", name, NoItem, r.outcome, NoError,
                          "none", r.result)
    /\ UNCHANGED <<moduleInit, dynamicGraphBuilders, graphSelectionWords,
                   registrationOrder, stepMap, engineVars>>

EngineIdle ==
    /\ store = <<>>
    /\ clock = 0
    /\ checkpoints = <<>>
    /\ requests = <<>>

InitRegistry == RegistryInit /\ EngineIdle


-----------------------------------------------------------------------------
(* Thread store *)

Users == {"userA", "userB"}

\* Inbound message texts.
Messages == {"@dynamic-short review", "concurrent review"}

\* The words of a message text.
Words(message) ==
    IF message = "@dynamic-short review"
    THEN <<"@dynamic-short", "review">>
    ELSE IF message = "concurrent review"
    THEN <<"concurrent", "review">>
    ELSE IF message = "concurrent and concurrent"
    THEN <<"concurrent", "and", "concurrent">>
    ELSE <<"hello">>

\* makeKey(userId, threadId)
makeKey(userId, threadId) == <<userId, threadId>>

HasKey(st, key) == \E i \in DOMAIN st : st[i].id = key

KeyPos(st, key) == CHOOSE i \in DOMAIN st : st[i].id = key

\* createThread that puts the new data in the place of an existing record.
createThreadOverwrites(st, data, now) ==
    LET record == [id |-> makeKey(data.userId, data.threadId),
                   userId |-> data.userId,
                   rootThreadId |-> data.rootThreadId,
                   threadId |-> data.threadId,
                   graphType |-> data.graphType,
                   createdAt |-> now,
                   lastUpdatedAt |-> now]
    IN IF HasKey(st, makeKey(data.userId, data.threadId))
       THEN [store |-> [st EXCEPT ![KeyPos(st, makeKey(data.userId, data.threadId))] = record],
             record |-> record]
       ELSE [store |-> Append(st, record), record |-> record]

\* InMemoryThreadStoreRepository.createThread: the record stored under the
\* key after the call, and the store.  An existing key keeps its record.
createThread(st, data, now) ==
    IF HasKey(st, makeKey(data.userId, data.threadId))
    THEN [store |-> st, record |-> st[KeyPos(st, makeKey(data.userId, data.threadId))]]
    ELSE LET record == [id |-> makeKey(data.userId, data.threadId),
                        userId |-> data.userId,
                        rootThreadId |-> data.rootThreadId,
                        threadId |-> data.threadId,
                        graphType |-> data.graphType,
                        createdAt |-> now,
                        lastUpdatedAt |-> now]
         IN [store |-> Append(st, record), record |-> record]

\* InMemoryThreadStoreRepository.findThreadsByUser, in store order.
findThreadsByUser(st, userId) == SelectSeq(st, LAMBDA r : r.userId = userId)

\* updateLastUpdatedAt that writes the time 0 instead of the current time.
updateLastUpdatedAtToZero(st, userId, threadId, now) ==
    [st EXCEPT ![KeyPos(st, makeKey(userId, threadId))].lastUpdatedAt = 0]

\* InMemoryThreadStoreRepository.updateLastUpdatedAt for an existing key.
updateLastUpdatedAt(st, userId, threadId, now) ==
    [st EXCEPT ![KeyPos(st, makeKey(userId, threadId))].lastUpdatedAt = now]

\* ThreadStoreService hands the calls of the orchestrator to the repository.
readThreadsByUser(st, userId) == findThreadsByUser(st, userId)

updateLastUpdatedAtFor(st, userId, threadId, now) ==
    updateLastUpdatedAt(st, userId, threadId, now)

-----------------------------------------------------------------------------
(* WorkflowOrchestratorService *)

NoHistory == [count |-> 0]

\* The loop of findThreadTypeCountsByUser with "item.lastUpdatedAt >=
\* existing.lastUpdatedAt": of the records updated last the last one is kept.
RECURSIVE CountThreadsLastOnTies(_, _)
CountThreadsLastOnTies(threads, k) ==
    IF k = 0
    THEN [g \in {} |-> NoHistory]
    ELSE LET acc == CountThreadsLastOnTies(threads, k - 1)
             item == threads[k]
             fresh == [count |-> 1,
                       lastUpdatedAt |-> item.lastUpdatedAt,
                       lastUpdatedThreadId |-> item.threadId,
                       lastUpdatedRootId |-> item.rootThreadId]
         IN IF item.graphType \notin DOMAIN acc
            THEN [g \in DOMAIN acc \cup {item.graphType} |->
                     IF g = item.graphType THEN fresh ELSE acc[g]]
            ELSE LET existing == acc[item.graphType]
                 IN [acc EXCEPT ![item.graphType] =
                        IF item.lastUpdatedAt >= existing.lastUpdatedAt
                        THEN [count |-> existing.count + 1,
                              lastUpdatedAt |-> item.lastUpdatedAt,
                              lastUpdatedThreadId |-> item.threadId,
                              lastUpdatedRootId |-> item.rootThreadId]
                        ELSE [existing EXCEPT !.count = @ + 1]]

\* The loop of findThreadTypeCountsByUser over the first k threads.
RECURSIVE CountThreads(_, _)
CountThreads(threads, k) ==
    IF k = 0
    THEN [g \in {} |-> NoHistory]
    ELSE LET acc == CountThreads(threads, k - 1)
             item == threads[k]
             fresh == [count |-> 1,
                       lastUpdatedAt |-> item.lastUpdatedAt,
                       lastUpdatedThreadId |-> item.threadId,
                       lastUpdatedRootId |-> item.rootThreadId]
         IN IF item.graphType \notin DOMAIN acc
            THEN [g \in DOMAIN acc \cup {item.graphType} |->
                     IF g = item.graphType THEN fresh ELSE acc[g]]
            ELSE LET existing == acc[item.graphType]
                 IN [acc EXCEPT ![item.graphType] =
                        IF item.lastUpdatedAt > existing.lastUpdatedAt
                        THEN [count |-> existing.count + 1,
                              lastUpdatedAt |-> item.lastUpdatedAt,
                              lastUpdatedThreadId |-> item.threadId,
                              lastUpdatedRootId |-> item.rootThreadId]
                        ELSE [existing EXCEPT !.count = @ + 1]]

findThreadTypeCountsByUser(st, userId) ==
    CountThreads(readThreadsByUser(st, userId), Len(readThreadsByUser(st, userId)))

\* Scoring weights of select-graph-config.json, as the comment on
\* scoreGraphsAndSelectOne gives them; the clock counts minutes.
pointsForWordMatch == 1
pointsForKeyWordMatch == 10
pointsForThread == 1
pointsForRecent == 5
fiveMinutes == 5

\* message.includes(word), for a word of the selection vocabularies.
Includes(message, word) == word \in Range(Words(message))

\* "@" marks a keyword.
StartsWithAt(word) == word \in {"@dynamic-short"}

RECURSIVE WordScore(_, _, _)
WordScore(arr, k, message) ==
    IF k = 0 THEN 0
    ELSE WordScore(arr, k - 1, message)
         + (IF ~Includes(message, arr[k]) THEN 0
            ELSE IF StartsWithAt(arr[k]) THEN pointsForKeyWordMatch
            ELSE pointsForWordMatch)

\* Score that also gives the recent points at the end of the window.
ScoreRecentAtWindow(entry, message, counts, now) ==
    WordScore(entry.words, Len(entry.words), message)
    + (IF entry.name \in DOMAIN counts
       THEN counts[entry.name].count * pointsForThread
            + (IF now - counts[entry.name].lastUpdatedAt <= fiveMinutes
               THEN pointsForRecent ELSE 0)
       ELSE 0)

\* The score of one entry of graphSelectionWords.
Score(entry, message, counts, now) ==
    WordScore(entry.words, Len(entry.words), message)
    + (IF entry.name \in DOMAIN counts
       THEN counts[entry.name].count * pointsForThread
            + (IF now - counts[entry.name].lastUpdatedAt < fiveMinutes
               THEN pointsForRecent ELSE 0)
       ELSE 0)

\* What scoreGraphsAndSelectOne returns when the registry has no graph.
NoGraphType == "undefined"

\* The last loop with "value >= maxScore": the last of the greatest wins.
RECURSIVE MaxKeyLastWins(_, _, _, _, _)
MaxKeyLastWins(words, k, message, counts, now) ==
    IF k = 0
    THEN [found |-> FALSE, maxKey |-> NoGraphType, maxScore |-> 0]
    ELSE LET acc == MaxKeyLastWins(words, k - 1, message, counts, now)
             value == Score(words[k], message, counts, now)
         IN IF ~acc.found \/ value >= acc.maxScore
            THEN [found |-> TRUE, maxKey |-> words[k].name, maxScore |-> value]
            ELSE acc

\* The last loop of scoreGraphsAndSelectOne over the first k keys: maxKey is
\* replaced when a score is greater than maxScore, which starts at -Infinity
\* (found = FALSE).
RECURSIVE MaxKey(_, _, _, _, _)
MaxKey(words, k, message, counts, now) ==
    IF k = 0
    THEN [found |-> FALSE, maxKey |-> NoGraphType, maxScore |-> 0]
    ELSE LET acc == MaxKey(words, k - 1, message, counts, now)
             value == Score(words[k], message, counts, now)
         IN IF ~acc.found \/ value > acc.maxScore
            THEN [found |-> TRUE, maxKey |-> words[k].name, maxScore |-> value]
            ELSE acc

\* scoreGraphsAndSelectOne whose result depends on the call before it.
scoreGraphsAndSelectOneAlternating(words, message, counts, now) ==
    IF lastOp.op = "route" /\ words # <<>>
    THEN words[Len(words)].name
    ELSE MaxKey(words, Len(words), message, counts, now).maxKey

\* scoreGraphsAndSelectOne: the key left in maxKey after the loop.
scoreGraphsAndSelectOne(words, message, counts, now) ==
    MaxKey(words, Len(words), message, counts, now).maxKey

-----------------------------------------------------------------------------
(* The registry with the router *)

\* Inputs of the router: message texts, the time, and history summaries in
\* which a graph type has one thread last updated at 0 or two threads last
\* updated at 6.
RouteMessages == Messages \cup {"hello"}
RouteTimes == {6, 11}
OneOldThread ==
    [count |-> 1, lastUpdatedAt |-> 0,
     lastUpdatedThreadId |-> "t1", lastUpdatedRootId |-> "r1"]
TwoThreads ==
    [count |-> 2, lastUpdatedAt |-> 6,
     lastUpdatedThreadId |-> "t2", lastUpdatedRootId |-> "r2"]
RouteCounts ==
    {[g \in {} |-> OneOldThread],
     [g \in {"dynamicShortGraph"} |-> TwoThreads],
     [g \in {"7"} |-> OneOldThread],
     [g \in {"dynamicShortGraph", "7"} |->
         IF g = "7" THEN TwoThreads ELSE OneOldThread]}

\* The router is asked for the graph type of a message.
Route(message, counts, now) ==
    /\ ~moduleInit
    /\ lastOp' = Op("route",
                    scoreGraphsAndSelectOne(graphSelectionWords, message, counts, now),
                    [message |-> message, counts |-> counts, now |-> now],
                    "ok", NoError, "none", NoGraph)
    /\ UNCHANGED <<moduleInit, dynamicGraphBuilders, dynamicGraphs,
                   graphSelectionWords, compiles, registrationOrder, stepMap,
                   engineVars>>

NextRegistry ==
    \/ \E item \in GraphSpecs : DynamicLoadGraphs(item)
    \/ OnModuleInitDone
    \/ \E item \in GraphSpecs : ExecuteAddGraph(item)
    \/ \E name \in GraphNames : GetDynamicGraph(name)
    \/ \E message \in RouteMessages, counts \in RouteCounts, now \in RouteTimes :
          Route(message, counts, now)

SpecRegistry == InitRegistry /\ [][NextRegistry]_vars

-----------------------------------------------------------------------------
(* Thread resolution *)

IdParts == 1..MaxReq

\* The random part of a new thread id, thread_<Date.now()>_<Math.random()>,
\* taken to differ from the parts of the ids made before.
FreshParts(st) == IdParts \ {st[i].threadId[2] : i \in DOMAIN st}

\* makeNewThread that leaves the random part out of the ids.
NewThreadDataFixedPart(userId, graphType, part) ==
    [userId |-> userId,
     rootThreadId |-> <<"root", 1>>,
     threadId |-> <<graphType, 1>>,
     graphType |-> graphType]

\* makeNewThread: the ids minted from the random part.
NewThreadData(userId, graphType, part) ==
    [userId |-> userId,
     rootThreadId |-> <<"root", part>>,
     threadId |-> <<graphType, part>>,
     graphType |-> graphType]

\* getThreadId that makes a new thread whatever the summary holds.
getThreadIdAlwaysNew(st, userId, graphType, counts, part, now) ==
    LET made == createThread(st, NewThreadData(userId, graphType, part), now)
    IN [store |-> made.store,
        threadId |-> made.record.threadId,
        rootId |-> made.record.rootThreadId]

\* getThreadId: reuse the thread of the summary and touch it, or make a new
\* thread with the random part `part`.
getThreadId(st, userId, graphType, counts, part, now) ==
    IF graphType \in DOMAIN counts
    THEN [store |-> updateLastUpdatedAtFor(st, userId,
                        counts[graphType].lastUpdatedThreadId, now),
          threadId |-> counts[graphType].lastUpdatedThreadId,
          rootId |-> counts[graphType].lastUpdatedRootId]
    ELSE LET made == createThread(st, NewThreadData(userId, graphType, part), now)
         IN [store |-> made.store,
             threadId |-> made.record.threadId,
             rootId |-> made.record.rootThreadId]

-----------------------------------------------------------------------------
(* State annotations and node functions *)

\* The state of a thread: the channels of the annotations, analysisResults
\* as the set of its keys.
EmptyState ==
    [messages |-> <<>>, currentStep |-> "", currentSteps |-> <<>>,
     analysisResults |-> {}]

HumanMessage(text) == [kind |-> "human", text |-> text]
AIMessage(text) == [kind |-> "ai", text |-> text]

\* Fields applied as if no annotation declared a reducer.
ReduceLastWriterWins(annotation, field, current, update) == update

\* One field of a partial state applied with the reducer of the annotation:
\* messages are concatenated; ConcurrentResearchGraphAnnotation concatenates
\* currentSteps and merges analysisResults; a field without a reducer takes
\* the new value.
Reduce(annotation, field, current, update) ==
    IF field = "messages" THEN current \o update
    ELSE IF annotation = "ConcurrentResearchGraphAnnotation" /\ field = "currentSteps"
    THEN current \o update
    ELSE IF annotation = "ConcurrentResearchGraphAnnotation" /\ field = "analysisResults"
    THEN current \cup update
    ELSE update

\* A partial state applied to a state: fields the partial lacks are kept.
ApplyPartial(annotation, state, partial) ==
    [f \in DOMAIN state |->
        IF f \in DOMAIN partial
        THEN Reduce(annotation, f, state[f], partial[f])
        ELSE state[f]]

\* Nodes that call interrupt().
IsGate(node) == node \in {"awaitApprovalNode", "concurrentAwaitApprovalNode"}

\* The value handed to interrupt() by the approval nodes.
InterruptPayload(node, state) ==
    [type |-> "approval_gate", node |-> node,
     results |-> "synthesis" \in state.analysisResults]

NoInterrupt == [type |-> "none", node |-> "", results |-> FALSE]

\* The partial state a node function returns for the state it was given.
NodePartial(node, state) ==
    CASE node = "inputAnalysisNode" ->
           [analysisResults |-> state.analysisResults \cup {"inputAnalysis"},
            currentStep |-> "input_analysis",
            messages |-> <<AIMessage("Input Analysis Complete")>>]
      [] node = "synthesisNode" ->
           [analysisResults |-> state.analysisResults \cup {"synthesis"},
            currentStep |-> "synthesis",
            messages |-> <<AIMessage("Research Summary")>>]
      [] node = "concurrentInputAnalysisNode" ->
           [analysisResults |-> {"inputAnalysis"},
            currentSteps |-> <<"concurrent_input_analysis">>,
            messages |-> <<AIMessage("Input Analysis Complete")>>]
      [] node = "concurrentNoveltyAnalysisNode" ->
           [analysisResults |-> {"noveltyAnalysis"},
            currentSteps |-> <<"concurrent_novelty_analysis">>,
            messages |-> <<AIMessage("Novelty Analysis")>>]
      [] node = "concurrentFeasibilityAnalysisNode" ->
           [analysisResults |-> {"feasibilityAnalysis"},
            currentSteps |-> <<"concurrent_feasibility_analysis">>,
            messages |-> <<AIMessage("Feasibility Analysis")>>]
      [] node = "concurrentImpactAnalysisNode" ->
           [analysisResults |-> {"impactAnalysis"},
            currentSteps |-> <<"concurrent_impact_analysis">>,
            messages |-> <<AIMessage("Impact Analysis")>>]
      [] node = "concurrentSynthesisNode" ->
           [analysisResults |-> {"synthesis"},
            currentSteps |-> <<"concurrent_synthesis">>,
            messages |-> <<AIMessage("Research Summary")>>]
      [] node = "awaitApprovalNode" ->
           [currentStep |-> "await_approval",
            messages |-> <<AIMessage("User decision")>>]
      [] OTHER ->
           [currentSteps |-> <<"concurrent_await_approval">>,
            messages |-> <<AIMessage("User decision")>>]

GRAPH_TYPES == {"monetizationGraph", "researchGraph", "concurrentResearchGraph"}

\* The factories of the initial states; {} stands for the empty object.
makeMonetization(msgs, ids) ==
    [activeThreadId |-> ids.activeThreadId, currentMonetizationAgent |-> "",
     marketAnalysis |-> {}, messages |-> msgs, monetizationAgents |-> <<>>,
     originalDisclosure |-> "null", rootId |-> ids.rootId, userId |-> ids.userId]

makeResearch(msgs, ids) ==
    [activeThreadId |-> ids.activeThreadId, analysisResults |-> {}, currentStep |-> "",
     messages |-> msgs, rootId |-> ids.rootId, userId |-> ids.userId]

makeConcurrentResearch(msgs, ids) ==
    [activeThreadId |-> ids.activeThreadId, analysisResults |-> {},
     currentSteps |-> <<>>, messages |-> msgs, rootId |-> ids.rootId,
     userId |-> ids.userId]

\* makeDefault that starts with an empty message list.
makeDefaultWithoutMessages(msgs, ids) ==
    [activeThreadId |-> ids.activeThreadId, analysisResults |-> {}, currentStep |-> "",
     messages |-> <<>>, rootId |-> ids.rootId, userId |-> ids.userId]

makeDefault(msgs, ids) ==
    [activeThreadId |-> ids.activeThreadId, analysisResults |-> {}, currentStep |-> "",
     messages |-> msgs, rootId |-> ids.rootId, userId |-> ids.userId]

isGraphType(x) == x \in GRAPH_TYPES

makeInitialState(graphType, msgs, ids) ==
    CASE graphType = "monetizationGraph" -> makeMonetization(msgs, ids)
      [] graphType = "researchGraph" -> makeResearch(msgs, ids)
      [] graphType = "concurrentResearchGraph" -> makeConcurrentResearch(msgs, ids)
      [] OTHER -> makeDefault(msgs, ids)

getInitialStateRuntime(graphTypeStr, msgs, ids) ==
    IF ~isGraphType(graphTypeStr)
    THEN makeDefault(msgs, ids)
    ELSE makeInitialState(graphTypeStr, msgs, ids)

\* A message of conversationContext.threadMessages as a LangGraph message.
ToBaseMessage(msg) ==
    IF msg.kind = "message.human" THEN HumanMessage(msg.text) ELSE AIMessage(msg.text)

\* getInitialStateForNewThread that puts the inbound message first.
getInitialStateForNewThreadMessageFirst(graphType, message, threadMessages, userId, threadId, rootThreadId) ==
    getInitialStateRuntime(graphType,
        <<HumanMessage(message)>>
           \o [i \in DOMAIN threadMessages |-> ToBaseMessage(threadMessages[i])],
        [activeThreadId |-> threadId, rootId |-> rootThreadId, userId |-> userId])

\* getInitialStateForNewThread: the initial state of a new thread, its
\* messages the thread messages of the conversation context and the inbound
\* message after them.
getInitialStateForNewThread(graphType, message, threadMessages, userId, threadId, rootThreadId) ==
    LET langGraphMessages ==
           [i \in DOMAIN threadMessages |-> ToBaseMessage(threadMessages[i])]
              \o <<HumanMessage(message)>>
    IN getInitialStateRuntime(graphType, langGraphMessages,
                              [activeThreadId |-> threadId, rootId |-> rootThreadId,
                               userId |-> userId])

-----------------------------------------------------------------------------
(* Graph execution: graph.stream over the compiled graph *)

\* The nodes that an edge leads to from one of `from`.
Successors(graph, from) ==
    {graph.edges[i][2] : i \in {j \in DOMAIN graph.edges : graph.edges[j][1] \in from}}
        \ {END}

\* The writes of a step are applied in the order of the task names.
NodeOrder ==
    <<"awaitApprovalNode", "concurrentAwaitApprovalNode",
      "concurrentFeasibilityAnalysisNode", "concurrentImpactAnalysisNode",
      "concurrentInputAnalysisNode", "concurrentNoveltyAnalysisNode",
      "concurrentSynthesisNode", "inputAnalysisNode", "synthesisNode">>

RECURSIVE ApplyWrites(_, _, _, _)
ApplyWrites(annotation, state, writes, k) ==
    IF k = 0 THEN state
    ELSE LET before == ApplyWrites(annotation, state, writes, k - 1)
         IN IF NodeOrder[k] \in DOMAIN writes
            THEN ApplyPartial(annotation, before, writes[NodeOrder[k]])
            ELSE before

\* The thread state held by a running step after one of its tasks has
\* returned `partial`, had the partial been applied at once.
ChannelsOnFinishApplied(annotation, channels, partial) ==
    ApplyPartial(annotation, channels, partial)

\* The thread state held by a running step after one of its tasks has
\* returned `partial`: the partial is kept with the writes of the step and
\* applied when the step completes.
ChannelsOnFinish(annotation, channels, partial) == channels

\* A step in which no task is taken to have called interrupt().
HasInterruptNever(tasks) == FALSE

\* A task of the step has called interrupt(): the step is not applied and
\* the run stops.
HasInterrupt(tasks) == \E n \in DOMAIN tasks : tasks[n] = "interrupted"

\* The annotation declares the field without a reducer.
NoReducer(annotation, field) ==
    ~(\/ field = "messages"
      \/ /\ annotation = "ConcurrentResearchGraphAnnotation"
         /\ field \in {"currentSteps", "analysisResults"})

\* Two tasks of one step have written to a field without a reducer: the
\* channel of such a field takes one value per step and throws an
\* InvalidUpdateError otherwise.
InvalidConcurrentUpdate(annotation, writes) ==
    \E n, m \in DOMAIN writes :
       /\ n # m
       /\ \E f \in DOMAIN writes[n] \cap DOMAIN writes[m] : NoReducer(annotation, f)

\* A step in which no task is taken to have thrown.
HasFailedNever(tasks) == FALSE

\* A task of the step has thrown an error that is no interrupt: the step is
\* not applied and the stream throws the error.
HasFailed(tasks) == \E n \in DOMAIN tasks : tasks[n] = "failed"

\* The tasks of a step start: each node function that calls the LLM reads
\* its StepData and sends the prompt.  llm[node] is the StepData the node
\* function last called the LLM with.
StartTasks(llm, steps, next) ==
    [n \in DOMAIN llm \cup {m \in next : StepKey(m) # ""} |->
        IF n \in next THEN steps[StepKey(n)] ELSE llm[n]]

NoCheckpoint == [id |-> 0, values |-> EmptyState, next |-> {}, interrupt |-> NoInterrupt]

\* The latest checkpoint of a thread; NoCheckpoint when it has none.
GetState(cps, threadId) ==
    IF threadId \in DOMAIN cps THEN cps[threadId] ELSE NoCheckpoint

\* A snapshot taken to have createdAt whatever the thread holds.
HasCreatedAtAlways(snapshot) == TRUE

\* stateSnapshot?.createdAt is set when the thread has a checkpoint.
HasCreatedAt(snapshot) == snapshot.id # 0

\* A checkpoint saved as the latest of every thread of the store.
PutCheckpointEveryThread(cps, threadId, cp) ==
    [t \in DOMAIN cps \cup {threadId} |-> cp]

\* A checkpoint saved as the latest of its thread.
PutCheckpoint(cps, threadId, cp) ==
    [t \in DOMAIN cps \cup {threadId} |-> IF t = threadId THEN cp ELSE cps[t]]

-----------------------------------------------------------------------------
(* POST /execute-new *)

NoThread == <<"", 0>>

NewRequest(userId, message) ==
    [userId |-> userId, message |-> message,
     pc |-> "findThreadTypeCountsByUser",
     counts |-> <<>>, summaryAt |-> 0, graphType |-> "", threadId |-> NoThread, rootId |-> NoThread,
     newThread |-> FALSE, resumed |-> FALSE, graph |-> NoGraph,
     channels |-> EmptyState,
     tasks |-> <<>>, writes |-> <<>>, ran |-> <<>>, events |-> <<>>, llm |-> <<>>,
     outcome |-> "", error |-> "", cpId |-> 0]

\* The registry after onModuleInit has loaded a graphs.json with the approval
\* graph and the concurrent research graph.
LoadedGraphs ==
    <<GraphSpec("dynamicShortGraph", "DefaultGraphAnnotation", ApprovalShape,
                <<"@dynamic-short">>),
      GraphSpec("concurrentResearchGraph", "ConcurrentResearchGraphAnnotation",
                ConcurrentShape, <<"concurrent">>)>>

RECURSIVE LoadGraphs(_, _)
LoadGraphs(items, k) ==
    IF k = 0
    THEN [builders |-> [n \in GraphNames |-> NoBuilder], words |-> <<>>]
    ELSE LET before == LoadGraphs(items, k - 1)
             r == registerGraphFromSpec(before.builders, before.words, items[k])
         IN [builders |-> r.builders, words |-> r.words]

Init ==
    /\ moduleInit = FALSE
    /\ dynamicGraphBuilders = LoadGraphs(LoadedGraphs, Len(LoadedGraphs)).builders
    /\ graphSelectionWords = LoadGraphs(LoadedGraphs, Len(LoadedGraphs)).words
    /\ dynamicGraphs = [n \in GraphNames |-> NoGraph]
    /\ compiles = [n \in GraphNames |-> 0]
    /\ registrationOrder = <<LoadedGraphs[1].name, LoadedGraphs[2].name>>
    /\ stepMap = LoadedSteps
    /\ lastOp = Op("onModuleInit", "", NoItem, "ok", NoError, "none", NoGraph)
    /\ EngineIdle

\* A request arrives at executeNewSystem.
ExecuteNewSystem(userId, message) ==
    /\ Len(requests) < MaxReq
    /\ requests' = Append(requests, NewRequest(userId, message))
    /\ UNCHANGED <<registryVars, store, clock, checkpoints>>

\* await orchestrator.findThreadTypeCountsByUser(userId); summaryAt keeps the
\* number of records the store held when the summary was made.
FindThreadTypeCountsByUser(r) ==
    /\ requests[r].pc = "findThreadTypeCountsByUser"
    /\ requests' = [requests EXCEPT
          ![r].counts = findThreadTypeCountsByUser(store, requests[r].userId),
          ![r].summaryAt = Len(store),
          ![r].pc = "selectGraph"]
    /\ UNCHANGED <<registryVars, store, clock, checkpoints>>

\* Date.now() does not go back.
Now == {t \in {clock, clock + 1} : t <= MaxClock}

Min(S) == CHOOSE x \in S : \A y \in S : x <= y

\* selectGraph up to the await in getThreadId: the graph type is scored and
\* the thread of the summary is touched or a new thread record is made.
SelectGraph(r) ==
    /\ requests[r].pc = "selectGraph"
    /\ \E now \in Now, part \in IdParts :
          LET req == requests[r]
              graphType == scoreGraphsAndSelectOne(graphSelectionWords, req.message,
                                                   req.counts, now)
              got == getThreadId(store, req.userId, graphType, req.counts, part, now)
          IN /\ part = Min(FreshParts(store) \cup {MaxReq})
             /\ store' = got.store
             /\ clock' = now
             /\ requests' = [requests EXCEPT
                   ![r].graphType = graphType,
                   ![r].threadId = got.threadId,
                   ![r].rootId = got.rootId,
                   ![r].pc = "getDynamicGraph"]
    /\ UNCHANGED <<registryVars, checkpoints>>

\* The rest of selectGraph and the start of the stream: the compiled graph is
\* fetched, the thread is new when it has no checkpoint; a new thread
\* streams its initial state, an existing one { messages: [HumanMessage] }.
\* The input is applied to the state of the latest checkpoint, the pending
\* tasks of that checkpoint are dropped and the run starts from START.
StreamGraph(r) ==
    /\ requests[r].pc = "getDynamicGraph"
    /\ requests[r].graphType \in GraphNames
    /\ LET req == requests[r]
           got == getDynamicGraph(dynamicGraphs, dynamicGraphBuilders, compiles,
                                  req.graphType)
           graph == got.result
           snapshot == GetState(checkpoints, req.threadId)
           newThread == ~HasCreatedAt(snapshot)
           input == IF newThread
                    THEN getInitialStateForNewThread(req.graphType, req.message, <<>>,
                                                     req.userId, req.threadId, req.rootId)
                    ELSE [messages |-> <<HumanMessage(req.message)>>]
           channels == ApplyPartial(graph.annotation, snapshot.values, input)
           next == Successors(graph, {START})
       IN /\ got.outcome \in {"cached", "compiled"}
          /\ dynamicGraphs' = got.graphs
          /\ compiles' = IF got.outcome = "compiled"
                         THEN [compiles EXCEPT ![req.graphType] = @ + 1]
                         ELSE compiles
          /\ lastOp' = Op("getDynamicGraph", req.graphType, NoItem, got.outcome,
                          NoError, "none", graph)
          /\ checkpoints' = PutCheckpoint(checkpoints, req.threadId,
                               [id |-> snapshot.id + 1, values |-> channels,
                                next |-> next, interrupt |-> NoInterrupt])
          /\ requests' = [requests EXCEPT
                ![r].graph = graph,
                ![r].newThread = newThread,
                ![r].resumed = (snapshot.interrupt # NoInterrupt),
                ![r].channels = channels,
                ![r].tasks = [n \in next |-> "running"],
                ![r].writes = <<>>,
                ![r].ran = [n \in Range(graph.nodes) |-> IF n \in next THEN 1 ELSE 0],
                ![r].events = <<{}>>,
                ![r].llm = StartTasks(<<>>, stepMap, next),
                ![r].cpId = snapshot.id + 1,
                ![r].pc = "stream"]
    /\ UNCHANGED <<moduleInit, dynamicGraphBuilders, graphSelectionWords,
                   registrationOrder, stepMap, store, clock>>

\* A node function returns its partial state; the stream yields the update.
\* events[k] holds the chunks the stream yielded during step k.
FinishNode(r, node) ==
    /\ requests[r].pc = "stream"
    /\ node \in DOMAIN requests[r].tasks
    /\ requests[r].tasks[node] = "running"
    /\ ~IsGate(node)
    /\ LET req == requests[r]
           partial == NodePartial(node, req.channels)
       IN requests' = [requests EXCEPT
             ![r].tasks[node] = "done",
             ![r].writes = [n \in DOMAIN req.writes \cup {node} |->
                               IF n = node THEN partial ELSE req.writes[n]],
             ![r].channels = ChannelsOnFinish(req.graph.annotation, req.channels, partial),
             ![r].events[Len(req.events)] = @ \cup {[type |-> "update", node |-> node]}]
    /\ UNCHANGED <<registryVars, store, clock, checkpoints>>

\* An approval node calls interrupt() and no resume value is present: the
\* task stops and the stream yields the interrupt payload.
InterruptNode(r, node) ==
    /\ requests[r].pc = "stream"
    /\ node \in DOMAIN requests[r].tasks
    /\ requests[r].tasks[node] = "running"
    /\ IsGate(node)
    /\ requests' = [requests EXCEPT
          ![r].tasks[node] = "interrupted",
          ![r].events[Len(requests[r].events)] =
                @ \cup {[type |-> "interrupt", node |-> node]}]
    /\ UNCHANGED <<registryVars, store, clock, checkpoints>>

\* All tasks of the step have ended.  With an interrupt the payload is saved
\* with the checkpoint the run wrote last and the stream ends; otherwise the
\* writes are applied, the checkpoint is saved and the next step starts, or
\* the stream ends when no node is left.
CompleteStep(r) ==
    /\ requests[r].pc = "stream"
    /\ \A n \in DOMAIN requests[r].tasks : requests[r].tasks[n] # "running"
    /\ ~HasFailed(requests[r].tasks)
    /\ ~InvalidConcurrentUpdate(requests[r].graph.annotation, requests[r].writes)
    /\ LET req == requests[r]
           snapshot == GetState(checkpoints, req.threadId)
           gate == CHOOSE n \in DOMAIN req.tasks : req.tasks[n] = "interrupted"
           channels == ApplyWrites(req.graph.annotation, req.channels, req.writes,
                                   Len(NodeOrder))
           next == Successors(req.graph, DOMAIN req.writes)
       IN IF HasInterrupt(req.tasks)
          THEN /\ checkpoints' =
                     IF snapshot.id = req.cpId
                     THEN PutCheckpoint(checkpoints, req.threadId,
                             [snapshot EXCEPT
                                !.interrupt = InterruptPayload(gate, req.channels)])
                     ELSE checkpoints
               /\ requests' = [requests EXCEPT
                     ![r].pc = "done", ![r].outcome = "Suspended"]
          ELSE /\ checkpoints' = PutCheckpoint(checkpoints, req.threadId,
                                    [id |-> snapshot.id + 1, values |-> channels,
                                     next |-> next, interrupt |-> NoInterrupt])
               /\ requests' = [requests EXCEPT
                     ![r].channels = channels,
                          ![r].tasks = [n \in next |-> "running"],
                     ![r].writes = <<>>,
                     ![r].ran = [n \in DOMAIN req.ran |->
                                    IF n \in next THEN req.ran[n] + 1 ELSE req.ran[n]],
                     ![r].cpId = snapshot.id + 1,
                     ![r].events = IF next = {} THEN @ ELSE Append(@, {}),
                     ![r].llm = StartTasks(req.llm, stepMap, next),
                     ![r].pc = IF next = {} THEN "done" ELSE "stream",
                     ![r].outcome = IF next = {} THEN "Completed" ELSE ""]
    /\ UNCHANGED <<registryVars, store, clock>>

Next ==
    \/ \E userId \in Users, message \in Messages : ExecuteNewSystem(userId, message)
    \/ \E r \in DOMAIN requests : FindThreadTypeCountsByUser(r)
    \/ \E r \in DOMAIN requests : SelectGraph(r)
    \/ \E r \in DOMAIN requests : StreamGraph(r)
    \/ \E r \in DOMAIN requests, node \in nodeFuctionMap : FinishNode(r, node)
    \/ \E r \in DOMAIN requests, node \in nodeFuctionMap : InterruptNode(r, node)
    \/ \E r \in DOMAIN requests : CompleteStep(r)

Spec == Init /\ [][Next]_vars

-----------------------------------------------------------------------------
(* POST /update-node *)

\* executeUpdateNodeParams: addOrUpdateStep sets the entry of stepName; the
\* response carries an error event only when that throws, which it does not.
ExecuteUpdateNodeParams(stepName, data) ==
    /\ ~moduleInit
    /\ stepMap' = [stepMap EXCEPT ![stepName] = data]
    /\ lastOp' = Op("executeUpdateNodeParams", stepName, data, "ok", NoError,
                    "empty", NoGraph)
    /\ UNCHANGED <<moduleInit, dynamicGraphBuilders, dynamicGraphs,
                   graphSelectionWords, compiles, registrationOrder, engineVars>>

\* The first request of a run of the service.
ExecuteNewSystemFirst(userId, message) ==
    /\ requests = <<>>
    /\ ExecuteNewSystem(userId, message)

\* One execute-new request at a time with node configuration updates.
NextNodes ==
    \/ \E stepName \in UpdatedStepNames, data \in StepDatas :
          ExecuteUpdateNodeParams(stepName, data)
    \/ \E userId \in Users, message \in Messages : ExecuteNewSystemFirst(userId, message)
    \/ \E r \in DOMAIN requests : FindThreadTypeCountsByUser(r)
    \/ \E r \in DOMAIN requests : SelectGraph(r)
    \/ \E r \in DOMAIN requests : StreamGraph(r)
    \/ \E r \in DOMAIN requests, node \in nodeFuctionMap : FinishNode(r, node)
    \/ \E r \in DOMAIN requests, node \in nodeFuctionMap : InterruptNode(r, node)
    \/ \E r \in DOMAIN requests : CompleteStep(r)

SpecNodes == Init /\ [][NextNodes]_vars

-----------------------------------------------------------------------------
(* POST /execute-new, one request at a time *)

\* A request arrives when every request before it has been answered.
ExecuteNewSystemAlone(userId, message) ==
    /\ \A r \in DOMAIN requests : requests[r].pc = "done"
    /\ ExecuteNewSystem(userId, message)

NextSequential ==
    \/ \E userId \in Users, message \in Messages : ExecuteNewSystemAlone(userId, message)
    \/ \E r \in DOMAIN requests : FindThreadTypeCountsByUser(r)
    \/ \E r \in DOMAIN requests : SelectGraph(r)
    \/ \E r \in DOMAIN requests : StreamGraph(r)
    \/ \E r \in DOMAIN requests, node \in nodeFuctionMap : FinishNode(r, node)
    \/ \E r \in DOMAIN requests, node \in nodeFuctionMap : InterruptNode(r, node)
    \/ \E r \in DOMAIN requests : CompleteStep(r)

SpecSequential == Init /\ [][NextSequential]_vars

-----------------------------------------------------------------------------
(* POST /execute-new with node functions that throw *)

\* The LLM call of a node function rejects and the node function, which
\* catches nothing, throws: the runner keeps the error and signals the other
\* tasks of the step to stop.
FailNode(r, node) ==
    /\ requests[r].pc = "stream"
    /\ node \in DOMAIN requests[r].tasks
    /\ requests[r].tasks[node] = "running"
    /\ StepKey(node) # ""
    /\ requests' = [requests EXCEPT
          ![r].tasks[node] = "failed",
          ![r].error = IF @ = "" THEN node ELSE @]
    /\ UNCHANGED <<registryVars, store, clock, checkpoints>>

\* A task that is still running when another task of its step has thrown is
\* stopped by the signal; it may also return before (FinishNode).
AbortNode(r, node) ==
    /\ requests[r].pc = "stream"
    /\ node \in DOMAIN requests[r].tasks
    /\ requests[r].tasks[node] = "running"
    /\ HasFailed(requests[r].tasks)
    /\ requests' = [requests EXCEPT ![r].tasks[node] = "aborted"]
    /\ UNCHANGED <<registryVars, store, clock, checkpoints>>

\* All tasks of a step with a thrown error have ended: graph.stream throws,
\* no checkpoint is written, and the catch block of executeNewSystem writes
\* the error event before the response ends.
FailStep(r) ==
    /\ requests[r].pc = "stream"
    /\ \A n \in DOMAIN requests[r].tasks : requests[r].tasks[n] # "running"
    /\ HasFailed(requests[r].tasks)
    /\ requests' = [requests EXCEPT
          ![r].events = Append(@, {[type |-> "error", node |-> requests[r].error]}),
          ![r].pc = "done",
          ![r].outcome = "Failed"]
    /\ UNCHANGED <<registryVars, store, clock, checkpoints>>

NextFailures ==
    \/ \E userId \in Users, message \in Messages : ExecuteNewSystemAlone(userId, message)
    \/ \E r \in DOMAIN requests : FindThreadTypeCountsByUser(r)
    \/ \E r \in DOMAIN requests : SelectGraph(r)
    \/ \E r \in DOMAIN requests : StreamGraph(r)
    \/ \E r \in DOMAIN requests, node \in nodeFuctionMap : FinishNode(r, node)
    \/ \E r \in DOMAIN requests, node \in nodeFuctionMap : InterruptNode(r, node)
    \/ \E r \in DOMAIN requests, node \in nodeFuctionMap : FailNode(r, node)
    \/ \E r \in DOMAIN requests, node \in nodeFuctionMap : AbortNode(r, node)
    \/ \E r \in DOMAIN requests : CompleteStep(r)
    \/ \E r \in DOMAIN requests : FailStep(r)

SpecFailures == Init /\ [][NextFailures]_vars

-----------------------------------------------------------------------------
(* POST /execute-new with a registry that cannot serve the request *)

\* What graphs.json may have left in the registry: the two graphs, no graph,
\* a graph whose edges name a node it does not have, or the concurrent graph
\* with an annotation without reducers for the fields its branches write.
LoadedRegistries ==
    {LoadedGraphs, <<>>,
     <<GraphSpec("dynamicShortGraph", "DefaultGraphAnnotation", DanglingEdgeShape,
                 <<"@dynamic-short">>)>>,
     <<GraphSpec("concurrentResearchGraph", "DefaultGraphAnnotation", ConcurrentShape,
                 <<"concurrent">>)>>}

InitErrors ==
    /\ moduleInit = FALSE
    /\ \E items \in LoadedRegistries :
          /\ dynamicGraphBuilders = LoadGraphs(items, Len(items)).builders
          /\ graphSelectionWords = LoadGraphs(items, Len(items)).words
          /\ registrationOrder = [i \in DOMAIN items |-> items[i].name]
    /\ dynamicGraphs = [n \in GraphNames |-> NoGraph]
    /\ compiles = [n \in GraphNames |-> 0]
    /\ stepMap = LoadedSteps
    /\ lastOp = Op("onModuleInit", "", NoItem, "ok", NoError, "none", NoGraph)
    /\ EngineIdle

\* selectGraph throws after the thread was resolved: builder.compile() throws
\* in getDynamicGraph, or getDynamicGraph returns undefined and
\* graph.getState is a TypeError.  The call sits before the try block of
\* executeNewSystem, so the handler rejects without writing an event or
\* ending the response; the framework answers the request with its error
\* reply.
SelectGraphThrows(r) ==
    /\ requests[r].pc = "getDynamicGraph"
    /\ \/ requests[r].graphType \notin GraphNames
       \/ /\ requests[r].graphType \in GraphNames
          /\ getDynamicGraph(dynamicGraphs, dynamicGraphBuilders, compiles,
                             requests[r].graphType).outcome \in {"thrown", "not_found"}
    /\ requests' = [requests EXCEPT
          ![r].pc = "done",
          ![r].outcome = "Rejected",
          ![r].error = "selectGraph"]
    /\ UNCHANGED <<registryVars, store, clock, checkpoints>>

\* The tasks of a step have returned and two of them have written to a field
\* without a reducer: applying the writes throws, no checkpoint is written
\* and the stream throws the error into the catch block of executeNewSystem.
RejectStep(r) ==
    /\ requests[r].pc = "stream"
    /\ \A n \in DOMAIN requests[r].tasks : requests[r].tasks[n] # "running"
    /\ ~HasFailed(requests[r].tasks)
    /\ ~HasInterrupt(requests[r].tasks)
    /\ InvalidConcurrentUpdate(requests[r].graph.annotation, requests[r].writes)
    /\ requests' = [requests EXCEPT
          ![r].events = Append(@, {[type |-> "error", node |-> "InvalidUpdateError"]}),
          ![r].error = "InvalidUpdateError",
          ![r].pc = "done",
          ![r].outcome = "Failed"]
    /\ UNCHANGED <<registryVars, store, clock, checkpoints>>

NextErrors ==
    \/ \E userId \in Users, message \in Messages : ExecuteNewSystemAlone(userId, message)
    \/ \E r \in DOMAIN requests : FindThreadTypeCountsByUser(r)
    \/ \E r \in DOMAIN requests : SelectGraph(r)
    \/ \E r \in DOMAIN requests : SelectGraphThrows(r)
    \/ \E r \in DOMAIN requests : StreamGraph(r)
    \/ \E r \in DOMAIN requests, node \in nodeFuctionMap : FinishNode(r, node)
    \/ \E r \in DOMAIN requests, node \in nodeFuctionMap : InterruptNode(r, node)
    \/ \E r \in DOMAIN requests, node \in nodeFuctionMap : FailNode(r, node)
    \/ \E r \in DOMAIN requests, node \in nodeFuctionMap : AbortNode(r, node)
    \/ \E r \in DOMAIN requests : CompleteStep(r)
    \/ \E r \in DOMAIN requests : FailStep(r)
    \/ \E r \in DOMAIN requests : RejectStep(r)

SpecErrors == InitErrors /\ [][NextErrors]_vars

-----------------------------------------------------------------------------
(* The reducers of the state annotations *)

\* reducer of messages and currentSteps: (a, b) => a.concat(b)
concatReducer(a, b) == a \o b

\* The reducer of analysisResults with the operands of the spread swapped.
spreadReducerKeepsFirst(a, b) ==
    [k \in DOMAIN a \cup DOMAIN b |-> IF k \in DOMAIN a THEN a[k] ELSE b[k]]

\* reducer of analysisResults in ConcurrentResearchGraphAnnotation:
\* (a, b) => ({ ...a, ...b }), as a map from key to value.
spreadReducer(a, b) ==
    [k \in DOMAIN a \cup DOMAIN b |-> IF k \in DOMAIN b THEN b[k] ELSE a[k]]

\* Message lists and analysis results handed to the reducers.
MessageLists ==
    {<<>>, <<AIMessage("m1")>>, <<AIMessage("m2")>>,
     <<AIMessage("m1"), AIMessage("m2")>>}
ResultKeys == {"noveltyAnalysis", "feasibilityAnalysis"}
ResultValues == {"v1", "v2"}
ResultMaps == UNION {[keys -> ResultValues] : keys \in SUBSET ResultKeys}

\* The state s takes the updates a and b through the reducer of messages:
\* one after the other, and as one update.
ReduceMessages(s, a, b) ==
    /\ lastOp' = Op("concatReducer", "", [s |-> s, a |-> a, b |-> b],
                    "ok", NoError, "none",
                    [oneByOne |-> concatReducer(concatReducer(s, a), b),
                     atOnce |-> concatReducer(s, a \o b)])
    /\ UNCHANGED <<moduleInit, dynamicGraphBuilders, dynamicGraphs, graphSelectionWords,
                   compiles, registrationOrder, stepMap, engineVars>>

\* The state s takes the partial results a and b through the reducer of
\* analysisResults, in both orders.
ReduceAnalysisResults(s, a, b) ==
    /\ lastOp' = Op("spreadReducer", "", [s |-> s, a |-> a, b |-> b],
                    "ok", NoError, "none",
                    [ab |-> spreadReducer(spreadReducer(s, a), b),
                     ba |-> spreadReducer(spreadReducer(s, b), a)])
    /\ UNCHANGED <<moduleInit, dynamicGraphBuilders, dynamicGraphs, graphSelectionWords,
                   compiles, registrationOrder, stepMap, engineVars>>

NextReducers ==
    \/ \E s, a, b \in MessageLists : ReduceMessages(s, a, b)
    \/ \E s, a, b \in ResultMaps : ReduceAnalysisResults(s, a, b)

SpecReducers == Init /\ [][NextReducers]_vars

-----------------------------------------------------------------------------
(* The initial state of a thread *)

\* Graph types handed to getInitialStateRuntime: the known ones, registered
\* names that are none of them, and the type of a request that no graph
\* was selected for.
InitialGraphTypes == GRAPH_TYPES \cup {"defaultGraph", "dynamicShortGraph", "7", NoGraphType}

InitialIds ==
    [activeThreadId : {<<"dynamicShortGraph", 1>>, <<"7", 2>>},
     rootId : {<<"root", 1>>, <<"root", 2>>},
     userId : Users]

GetInitialStateRuntime(graphTypeStr, msgs, ids) ==
    /\ lastOp' = Op("getInitialStateRuntime", graphTypeStr, [msgs |-> msgs, ids |-> ids],
                    "ok", NoError, "none", getInitialStateRuntime(graphTypeStr, msgs, ids))
    /\ UNCHANGED <<moduleInit, dynamicGraphBuilders, dynamicGraphs, graphSelectionWords,
                   compiles, registrationOrder, stepMap, engineVars>>

\* conversationContext.threadMessages of a request.
ThreadMessageLists ==
    LET M == {[kind |-> "message.human", text |-> "earlier question"],
              [kind |-> "message.ai", text |-> "earlier answer"]}
    IN {<<>>} \cup {<<a>> : a \in M} \cup {<<a, b>> : a \in M, b \in M}

GetInitialStateForNewThread(graphType, message, threadMessages, ids) ==
    /\ lastOp' = Op("getInitialStateForNewThread", graphType,
                    [message |-> message, threadMessages |-> threadMessages, ids |-> ids],
                    "ok", NoError, "none",
                    getInitialStateForNewThread(graphType, message, threadMessages,
                                                ids.userId, ids.activeThreadId, ids.rootId))
    /\ UNCHANGED <<moduleInit, dynamicGraphBuilders, dynamicGraphs, graphSelectionWords,
                   compiles, registrationOrder, stepMap, engineVars>>

NextInitialState ==
    \/ \E graphTypeStr \in InitialGraphTypes, msgs \in MessageLists, ids \in InitialIds :
          GetInitialStateRuntime(graphTypeStr, msgs, ids)
    \/ \E graphType \in InitialGraphTypes, message \in Messages,
          threadMessages \in ThreadMessageLists, ids \in InitialIds :
          GetInitialStateForNewThread(graphType, message, threadMessages, ids)

SpecInitialState == Init /\ [][NextInitialState]_vars

-----------------------------------------------------------------------------
(* The router of the loaded registry *)

\* Message texts, one of them with a selection word twice, and the times at
\* which the router is asked.
ScoringMessages == RouteMessages \cup {"concurrent and concurrent"}
ScoringTimes == 6..17

NextScoring ==
    \E message \in ScoringMessages, counts \in RouteCounts, now \in ScoringTimes :
       Route(message, counts, now)

SpecScoring == Init /\ [][NextScoring]_vars

-----------------------------------------------------------------------------
(* The thread store and the summary of a user's threads *)

\* Thread ids and graph types handed to the store; the root id goes with the
\* thread id.
StoreThreadIds == {<<"dynamicShortGraph", 1>>, <<"dynamicShortGraph", 2>>}
StoreGraphTypes == {"dynamicShortGraph", "concurrentResearchGraph"}

CreateThreadDto(userId, threadId, graphType) ==
    [userId |-> userId, rootThreadId |-> <<"root", threadId[2]>>,
     threadId |-> threadId, graphType |-> graphType]

\* threadStore.createThread(data)
CreateThread(userId, threadId, graphType) ==
    /\ Len(store) < MaxRecords \/ HasKey(store, makeKey(userId, threadId))
    /\ \E now \in Now :
          LET made == createThread(store, CreateThreadDto(userId, threadId, graphType), now)
          IN /\ store' = made.store
             /\ clock' = now
             /\ lastOp' = Op("createThread", "", CreateThreadDto(userId, threadId, graphType),
                             "ok", NoError, "none", made.record)
    /\ UNCHANGED <<moduleInit, dynamicGraphBuilders, dynamicGraphs, graphSelectionWords,
                   compiles, registrationOrder, stepMap, checkpoints, requests>>

\* threadStore.updateLastUpdatedAtFor(userId, threadId): without a record
\* under the key the repository reads a field of undefined and throws.
UpdateLastUpdatedAtFor(userId, threadId) ==
    /\ \E now \in Now :
          /\ clock' = now
          /\ IF HasKey(store, makeKey(userId, threadId))
             THEN /\ store' = updateLastUpdatedAtFor(store, userId, threadId, now)
                  /\ lastOp' = Op("updateLastUpdatedAtFor", "",
                                  [userId |-> userId, threadId |-> threadId],
                                  "ok", NoError, "none",
                                  store'[KeyPos(store, makeKey(userId, threadId))])
             ELSE /\ store' = store
                  /\ lastOp' = Op("updateLastUpdatedAtFor", "",
                                  [userId |-> userId, threadId |-> threadId],
                                  "throws", "TypeError", "none", NoGraph)
    /\ UNCHANGED <<moduleInit, dynamicGraphBuilders, dynamicGraphs, graphSelectionWords,
                   compiles, registrationOrder, stepMap, checkpoints, requests>>

\* orchestrator.findThreadTypeCountsByUser(userId)
Summarize(userId) ==
    /\ lastOp' = Op("findThreadTypeCountsByUser", userId, NoItem, "ok", NoError, "none",
                    findThreadTypeCountsByUser(store, userId))
    /\ UNCHANGED <<moduleInit, dynamicGraphBuilders, dynamicGraphs, graphSelectionWords,
                   compiles, registrationOrder, stepMap, engineVars>>

NextThreadStore ==
    \/ \E userId \in Users, threadId \in StoreThreadIds, graphType \in StoreGraphTypes :
          CreateThread(userId, threadId, graphType)
    \/ \E userId \in Users, threadId \in StoreThreadIds :
          UpdateLastUpdatedAtFor(userId, threadId)
    \/ \E userId \in Users : Summarize(userId)

SpecThreadStore == Init /\ [][NextThreadStore]_vars

-----------------------------------------------------------------------------
(* POST /execute-current: LangGraphService.executeResearch *)

\* Message texts and message.includes('@monetize').
CurrentMessages == {"solar panel design", "@monetize the panel", "Yes, proceed"}

IncludesMonetize(message) == message = "@monetize the panel"

\* request.threadId: absent, or an id that the client chose.
NoThreadId == ""
ClientThreadIds == {"t1"}

\* thread_<Date.now()>_<Math.random()>, taken to differ from the ids that
\* were generated before.
GeneratedThreadIds(reqs) ==
    {"thread_1", "thread_2"} \ {reqs[i].activeThreadId : i \in DOMAIN reqs}

researchThreadId(activeThreadId) == <<"research", activeThreadId>>
monetizationThreadId(activeThreadId) == <<"monetization", activeThreadId>>

createResearchGraph ==
    [name |-> "RESEARCH", annotation |-> "ResearchGraphAnnotation",
     nodes |-> <<"input_analysis", "novelty_analysis", "feasibility_analysis",
                 "impact_analysis", "synthesis", "await_approval">>,
     edges |-> << <<START, "input_analysis">>,
                  <<"input_analysis", "novelty_analysis">>,
                  <<"novelty_analysis", "feasibility_analysis">>,
                  <<"feasibility_analysis", "impact_analysis">>,
                  <<"impact_analysis", "synthesis">>,
                  <<"synthesis", "await_approval">>,
                  <<"await_approval", END>> >>]

createMonetizationGraph ==
    [name |-> "MONETIZATION", annotation |-> "MonetizationGraphAnnotation",
     nodes |-> <<"market_research", "business_model", "pricing_strategy",
                 "await_strategy_approval", "implementation_plan">>,
     edges |-> << <<START, "market_research">>,
                  <<"market_research", "business_model">>,
                  <<"business_model", "pricing_strategy">>,
                  <<"pricing_strategy", "await_strategy_approval">>,
                  <<"await_strategy_approval", "implementation_plan">>,
                  <<"implementation_plan", END>> >>]

\* The channels of both annotations, analysisResults and marketAnalysis as
\* the sets of their keys.
CurrentEmptyState ==
    [activeThreadId |-> NoThreadId, rootId |-> <<"", "">>, userId |-> "",
     messages |-> <<>>, currentStep |-> "", analysisResults |-> {},
     marketAnalysis |-> {}]

\* graph.getState(config) of LangGraphService.
CurrentGetState(cps, threadId) ==
    IF threadId \in DOMAIN cps
    THEN cps[threadId]
    ELSE [NoCheckpoint EXCEPT !.values = CurrentEmptyState]

\* Nodes of the two graphs that call interrupt().
IsCurrentGate(node) == node \in {"await_approval", "await_strategy_approval"}

CurrentInterruptPayload(node, state) ==
    IF node = "await_approval"
    THEN [type |-> "approval_gate", node |-> node,
          results |-> "synthesis" \in state.analysisResults]
    ELSE [type |-> "strategy_selection", node |-> node,
          results |-> "pricingStrategy" \in state.marketAnalysis]

\* The partial state a node function of LangGraphService returns.
CurrentNodePartial(node, state) ==
    CASE node = "input_analysis" ->
           [analysisResults |-> state.analysisResults \cup {"inputAnalysis"},
            currentStep |-> "input_analysis",
            messages |-> <<AIMessage("Input Analysis Complete")>>]
      [] node = "novelty_analysis" ->
           [analysisResults |-> state.analysisResults \cup {"noveltyAnalysis"},
            currentStep |-> "novelty_analysis",
            messages |-> <<AIMessage("Novelty Analysis")>>]
      [] node = "feasibility_analysis" ->
           [analysisResults |-> state.analysisResults \cup {"feasibilityAnalysis"},
            currentStep |-> "feasibility_analysis",
            messages |-> <<AIMessage("Feasibility Analysis")>>]
      [] node = "impact_analysis" ->
           [analysisResults |-> state.analysisResults \cup {"impactAnalysis"},
            currentStep |-> "impact_analysis",
            messages |-> <<AIMessage("Impact Analysis")>>]
      [] node = "synthesis" ->
           [analysisResults |-> state.analysisResults \cup {"synthesis"},
            currentStep |-> "synthesis",
            messages |-> <<AIMessage("Research Summary")>>]
      [] node = "market_research" ->
           [marketAnalysis |-> state.marketAnalysis \cup {"marketResearch"},
            messages |-> <<AIMessage("Market Research")>>]
      [] node = "business_model" ->
           [marketAnalysis |-> state.marketAnalysis \cup {"businessModel"},
            messages |-> <<AIMessage("Business Model")>>]
      [] node = "pricing_strategy" ->
           [marketAnalysis |-> state.marketAnalysis \cup {"pricingStrategy"},
            messages |-> <<AIMessage("Pricing Strategy")>>]
      [] OTHER ->
           [marketAnalysis |-> state.marketAnalysis \cup {"implementationPlan"},
            messages |-> <<AIMessage("Implementation Plan")>>]

\* executeResearch that takes every thread for a new one of the graph that
\* the message names.
isNewThreadAlways(researchState, monetizationState) == TRUE

\* isNewThread: neither graph has a checkpoint of the thread.
isNewThread(researchState, monetizationState) ==
    ~HasCreatedAt(researchState) /\ ~HasCreatedAt(monetizationState)

\* executeResearch up to graph.stream: the graph, the thread id of its
\* config and the input of the stream.
executeResearch(cps, message, activeThreadId, rootId, userId) ==
    LET researchState == CurrentGetState(cps, researchThreadId(activeThreadId))
        monetizationState == CurrentGetState(cps, monetizationThreadId(activeThreadId))
        isMonetizationRequest ==
           IF isNewThread(researchState, monetizationState)
           THEN IncludesMonetize(message)
           ELSE HasCreatedAt(monetizationState)
        graph == IF isMonetizationRequest THEN createMonetizationGraph
                 ELSE createResearchGraph
        threadId == IF isMonetizationRequest THEN monetizationThreadId(activeThreadId)
                    ELSE researchThreadId(activeThreadId)
        stateSnapshot == CurrentGetState(cps, threadId)
        finalIsNewThread == ~HasCreatedAt(stateSnapshot)
        langGraphMessages == <<HumanMessage(message)>>
        initialState ==
           IF graph.name = "MONETIZATION"
           THEN [activeThreadId |-> activeThreadId, marketAnalysis |-> {},
                 messages |-> langGraphMessages, rootId |-> rootId, userId |-> userId]
           ELSE [activeThreadId |-> activeThreadId, analysisResults |-> {},
                 currentStep |-> "", messages |-> langGraphMessages,
                 rootId |-> rootId, userId |-> userId]
    IN [graph |-> graph, threadId |-> threadId, stateSnapshot |-> stateSnapshot,
        finalIsNewThread |-> finalIsNewThread,
        input |-> IF finalIsNewThread THEN initialState
                  ELSE [messages |-> <<HumanMessage(message)>>]]

\* The node that the edge from `node` leads to, END when it is the last.
NextNode(graph, node) ==
    LET i == CHOOSE j \in DOMAIN graph.edges : graph.edges[j][1] = node
    IN graph.edges[i][2]

\* A request arrives at executeCurrentSystem, executeResearch selects the
\* graph and starts its stream: the input is applied to the state of the
\* latest checkpoint of the thread and the run starts from START.  The
\* checkpointer is in memory, so nothing that the request awaits before the
\* first node function waits for another request.  found and doneBefore are
\* history: the checkpoint that the run started from and the requests that
\* had ended when this one arrived.
ExecuteCurrentSystem(userId, message, bodyThreadId) ==
    /\ Len(requests) < MaxReq
    /\ \E generated \in GeneratedThreadIds(requests) :
          LET activeThreadId == IF bodyThreadId # NoThreadId THEN bodyThreadId
                                ELSE generated
              rootId == <<"root", activeThreadId>>
              sel == executeResearch(checkpoints, message, activeThreadId, rootId, userId)
              channels == ApplyPartial(sel.graph.annotation, sel.stateSnapshot.values,
                                       sel.input)
              first == NextNode(sel.graph, START)
          IN /\ checkpoints' = PutCheckpoint(checkpoints, sel.threadId,
                                  [id |-> sel.stateSnapshot.id + 1, values |-> channels,
                                   next |-> {first}, interrupt |-> NoInterrupt])
             /\ requests' = Append(requests,
                   [userId |-> userId, message |-> message,
                    bodyThreadId |-> bodyThreadId, activeThreadId |-> activeThreadId,
                    rootId |-> rootId, graph |-> sel.graph, threadId |-> sel.threadId,
                    newThread |-> sel.finalIsNewThread,
                    resumed |-> (sel.stateSnapshot.interrupt # NoInterrupt),
                    found |-> sel.stateSnapshot,
                    doneBefore |-> {i \in DOMAIN requests : requests[i].pc = "done"},
                    channels |-> channels, node |-> first,
                    ran |-> [n \in Range(sel.graph.nodes) |-> IF n = first THEN 1 ELSE 0],
                    events |-> <<>>, pc |-> "stream", outcome |-> "",
                    cpId |-> sel.stateSnapshot.id + 1])
    /\ UNCHANGED <<registryVars, store, clock>>

\* The node function of the running step returns: its partial state is
\* applied, the checkpoint is saved, the stream yields the update and the
\* next node starts, or the stream ends after the last node.
CurrentFinishNode(r) ==
    /\ requests[r].pc = "stream"
    /\ ~IsCurrentGate(requests[r].node)
    /\ LET req == requests[r]
           snapshot == CurrentGetState(checkpoints, req.threadId)
           channels == ApplyPartial(req.graph.annotation, req.channels,
                                    CurrentNodePartial(req.node, req.channels))
           next == NextNode(req.graph, req.node)
       IN /\ checkpoints' = PutCheckpoint(checkpoints, req.threadId,
                               [id |-> snapshot.id + 1, values |-> channels,
                                next |-> {next} \ {END}, interrupt |-> NoInterrupt])
          /\ requests' = [requests EXCEPT
                ![r].channels = channels,
                ![r].events = Append(@, [type |-> "node_progress", node |-> req.node]),
                ![r].node = next,
                ![r].ran = [n \in DOMAIN req.ran |->
                               IF n = next THEN req.ran[n] + 1 ELSE req.ran[n]],
                ![r].cpId = snapshot.id + 1,
                ![r].pc = IF next = END THEN "done" ELSE "stream",
                ![r].outcome = IF next = END THEN "Completed" ELSE ""]
    /\ UNCHANGED <<registryVars, store, clock>>

\* The approval node of the running step calls interrupt() and no resume
\* value is present: the payload is saved with the checkpoint the run wrote
\* last, the stream yields the interrupt and ends.
CurrentInterruptNode(r) ==
    /\ requests[r].pc = "stream"
    /\ IsCurrentGate(requests[r].node)
    /\ LET req == requests[r]
           snapshot == CurrentGetState(checkpoints, req.threadId)
       IN /\ checkpoints' =
                IF snapshot.id = req.cpId
                THEN PutCheckpoint(checkpoints, req.threadId,
                        [snapshot EXCEPT
                           !.interrupt = CurrentInterruptPayload(req.node, req.channels)])
                ELSE checkpoints
          /\ requests' = [requests EXCEPT
                ![r].events = Append(@, [type |-> "interrupt", node |-> req.node]),
                ![r].pc = "done", ![r].outcome = "Suspended"]
    /\ UNCHANGED <<registryVars, store, clock>>

NextCurrent ==
    \/ \E userId \in Users, message \in CurrentMessages,
          bodyThreadId \in ClientThreadIds \cup {NoThreadId} :
          ExecuteCurrentSystem(userId, message, bodyThreadId)
    \/ \E r \in DOMAIN requests : CurrentFinishNode(r)
    \/ \E r \in DOMAIN requests : CurrentInterruptNode(r)

SpecCurrent == Init /\ [][NextCurrent]_vars

-----------------------------------------------------------------------------
(* Registry properties *)

IsRegistration(op) == op.op \in {"executeAddGraph", "dynamicLoadGraphs"}

\* The spec passes the annotation and node checks and has an edge endpoint
\* that is neither START/END nor in its node list.
HasDanglingEdge(item) ==
    /\ item.annotationType \in annotationsMap
    /\ FirstUnregistered(item.nodes) = 0
    /\ \E i \in DOMAIN item.edges :
          \/ item.edges[i][1] \notin Range(item.nodes) \cup {START, END}
          \/ item.edges[i][2] \notin Range(item.nodes) \cup {START, END}

\* C1: after a graph is registered again under a name whose compiled graph is
\* cached, the graph that getDynamicGraph returns has the node/edge shape of
\* the builder registered last.
C1_CompiledFollowsLastRegistration ==
    (/\ lastOp.op = "getDynamicGraph"
     /\ lastOp.result # NoGraph
     /\ dynamicGraphBuilders[lastOp.name] # NoBuilder)
    => ShapeOf(lastOp.result) = ShapeOf(dynamicGraphBuilders[lastOp.name])

\* C7: registering a spec with a dangling edge fails at registration with an
\* error and stores no builder and no selection words from that spec, and no
\* compiled graph with a dangling edge is ever cached.
C7_DanglingEdgeRejectedAtRegistration ==
    /\ (IsRegistration(lastOp) /\ HasDanglingEdge(lastOp.item))
       => /\ lastOp.outcome = "thrown"
          /\ dynamicGraphBuilders[lastOp.name] # Builder(lastOp.item)
    /\ \A n \in GraphNames :
          dynamicGraphs[n] # NoGraph => CompileValid(dynamicGraphs[n])

\* C8: a registration that fails on a node without a registered node function
\* raises an error naming the first such node and changes neither the
\* builders, nor the compiled cache, nor the selection words.
C8_UnresolvedNodeLeavesRegistry ==
    [][(/\ IsRegistration(lastOp')
        /\ lastOp'.item.annotationType \in annotationsMap
        /\ FirstUnregistered(lastOp'.item.nodes) # 0)
       => /\ lastOp'.outcome = "thrown"
          /\ lastOp'.error = lastOp'.item.nodes[FirstUnregistered(lastOp'.item.nodes)]
          /\ UNCHANGED <<dynamicGraphBuilders, dynamicGraphs,
                         graphSelectionWords, compiles>>]_vars

\* C8 witness: a registration failed on an unregistered node while the same
\* name had a compiled graph and the other graph was registered as well.
C8_Witness ==
    /\ lastOp.op = "executeAddGraph"
    /\ lastOp.outcome = "thrown"
    /\ lastOp.error = "reviewNode"
    /\ dynamicGraphs[lastOp.name] # NoGraph
    /\ \A n \in GraphNames : dynamicGraphBuilders[n] # NoBuilder
    /\ Keys(graphSelectionWords) = GraphNames

\* C9: POST /add-graph with a missing or unknown annotationType answers with
\* an error event.
C9_BadAnnotationSurfaced ==
    (/\ lastOp.op = "executeAddGraph"
     /\ lastOp.item.annotationType \notin annotationsMap)
    => lastOp.response = "error"

\* C10: registration never compiles; getDynamicGraph(n) touches no other
\* name, returns the cached instance without compiling when one is cached,
\* and otherwise compiles at most once, from the stored builder.
C10_LazyCachedCompilation ==
    [][/\ IsRegistration(lastOp')
          => UNCHANGED <<dynamicGraphs, compiles>>
       /\ lastOp'.op = "getDynamicGraph"
          => /\ \A m \in GraphNames \ {lastOp'.name} :
                   /\ dynamicGraphs'[m] = dynamicGraphs[m]
                   /\ compiles'[m] = compiles[m]
             /\ dynamicGraphs[lastOp'.name] # NoGraph
                => /\ lastOp'.result = dynamicGraphs[lastOp'.name]
                   /\ UNCHANGED <<dynamicGraphs, compiles>>
             /\ dynamicGraphs[lastOp'.name] = NoGraph
                => /\ compiles'[lastOp'.name] <= compiles[lastOp'.name] + 1
                   /\ dynamicGraphs'[lastOp'.name] = lastOp'.result
                   /\ lastOp'.result # NoGraph
                      => /\ compiles'[lastOp'.name] = compiles[lastOp'.name] + 1
                         /\ ShapeOf(lastOp'.result)
                              = ShapeOf(dynamicGraphBuilders[lastOp'.name])]_vars

\* C10 witness: a second getDynamicGraph of a name was served from the cache
\* after exactly one compilation, with the other graph registered and never
\* compiled.
C10_Witness ==
    /\ lastOp.op = "getDynamicGraph"
    /\ lastOp.outcome = "cached"
    /\ compiles[lastOp.name] = 1
    /\ \E m \in GraphNames \ {lastOp.name} :
          /\ dynamicGraphBuilders[m] # NoBuilder
          /\ dynamicGraphs[m] = NoGraph
          /\ compiles[m] = 0

-----------------------------------------------------------------------------
(* Execution properties *)

RECURSIVE Reach(_, _, _)
Reach(graph, from, k) ==
    IF k = 0 THEN from
    ELSE Reach(graph, from \cup Successors(graph, from), k - 1)

\* The nodes on a path after `node`, and those with a path to it.
After(graph, node) == Reach(graph, Successors(graph, {node}), Len(graph.nodes))
Before(graph, node) == {n \in Range(graph.nodes) : node \in After(graph, n)}
Gates(graph) == {n \in Range(graph.nodes) : IsGate(n)}
AllEvents(req) == UNION {req.events[k] : k \in DOMAIN req.events}

\* C2: a run on a new thread of a graph with a gate, once it has ended, has
\* run every node before the gate exactly once and no node after it, ended
\* suspended with the interrupt payload of the gate emitted and no update
\* event for the gate, and the thread's checkpoint, while it is still the
\* one this run wrote, holds the accumulated state and the payload.
C2_NewThreadStopsAtGate ==
    \A r \in DOMAIN requests :
       LET req == requests[r] IN
       (req.pc = "done" /\ req.newThread) =>
          \A gate \in Gates(req.graph) :
             /\ \A n \in Before(req.graph, gate) : req.ran[n] = 1
             /\ \A n \in After(req.graph, gate) : req.ran[n] = 0
             /\ req.ran[gate] = 1
             /\ req.outcome = "Suspended"
             /\ [type |-> "interrupt", node |-> gate] \in req.events[Len(req.events)]
             /\ [type |-> "update", node |-> gate] \notin AllEvents(req)
             /\ req.threadId \in DOMAIN checkpoints
             /\ checkpoints[req.threadId].id = req.cpId =>
                   /\ checkpoints[req.threadId].values = req.channels
                   /\ checkpoints[req.threadId].interrupt =
                         InterruptPayload(gate, req.channels)

C2_Witness ==
    \E r \in DOMAIN requests :
       /\ requests[r].pc = "done"
       /\ requests[r].newThread
       /\ requests[r].outcome = "Suspended"
       /\ requests[r].ran["inputAnalysisNode"] = 1
       /\ "synthesisNode" \in After(requests[r].graph, "awaitApprovalNode")
       /\ checkpoints[requests[r].threadId].id = requests[r].cpId
       /\ checkpoints[requests[r].threadId].interrupt.type = "approval_gate"
       /\ "inputAnalysis" \in checkpoints[requests[r].threadId].values.analysisResults

\* C3: a run on a thread that was suspended at a gate, once it has ended,
\* has completed the graph and has run no node before the gate again.
C3_ResumeCompletesFromGate ==
    \A r \in DOMAIN requests :
       LET req == requests[r] IN
       (req.pc = "done" /\ req.resumed) =>
          /\ req.outcome = "Completed"
          /\ \A gate \in Gates(req.graph) :
                \A n \in Before(req.graph, gate) : req.ran[n] = 0

\* C4: the thread store holds at most one record for a user and graph type.
C4_OneRecordPerUserAndGraphType ==
    \A i, j \in DOMAIN store :
       (store[i].userId = store[j].userId /\ store[i].graphType = store[j].graphType)
          => i = j

FanOutResults == {"noveltyAnalysis", "feasibilityAnalysis", "impactAnalysis"}

Predecessors(graph, node) ==
    {graph.edges[i][1] : i \in {j \in DOMAIN graph.edges : graph.edges[j][2] = node}}
        \ {START}

\* C5: the state the tasks of a running step read, and every checkpoint,
\* holds all of the fan-out's results or none of them, and a task runs only
\* when the results of all the nodes with an edge to its node are in the
\* state it reads.
C5_FanOutAppliedAtStepEnd ==
    /\ \A r \in DOMAIN requests :
          LET req == requests[r] IN
          req.pc = "stream" =>
             /\ req.channels.analysisResults \cap FanOutResults \in {{}, FanOutResults}
             /\ \A n \in DOMAIN req.tasks :
                   \A p \in Predecessors(req.graph, n) :
                      "analysisResults" \in DOMAIN NodePartial(p, EmptyState) =>
                         NodePartial(p, EmptyState).analysisResults
                            \subseteq req.channels.analysisResults
    /\ \A t \in DOMAIN checkpoints :
          checkpoints[t].values.analysisResults \cap FanOutResults
             \in {{}, FanOutResults}

C5_Witness ==
    \E r \in DOMAIN requests :
       /\ requests[r].pc = "stream"
       /\ requests[r].newThread
       /\ DOMAIN requests[r].tasks =
             {"concurrentNoveltyAnalysisNode", "concurrentFeasibilityAnalysisNode",
              "concurrentImpactAnalysisNode"}
       /\ requests[r].tasks["concurrentNoveltyAnalysisNode"] = "done"
       /\ requests[r].tasks["concurrentImpactAnalysisNode"] = "running"
       /\ requests[r].channels.analysisResults = {"inputAnalysis"}

\* C6: no two requests stream the same thread at the same time.
C6_SingleWriterPerThread ==
    \A r1, r2 \in DOMAIN requests :
       (/\ requests[r1].pc = "stream"
        /\ requests[r2].pc = "stream"
        /\ requests[r1].threadId = requests[r2].threadId)
          => r1 = r2

-----------------------------------------------------------------------------
(* Registry lookups and routing properties *)

\* C11: getDynamicGraph for a name that has no builder (no spec was ever
\* registered under it) reports not found, returns no graph and leaves the
\* compiled graphs, the builders and the selection words as they were.
C11_UnknownNameNotFound ==
    [][(lastOp'.op = "getDynamicGraph"
          /\ dynamicGraphBuilders[lastOp'.name] = NoBuilder)
        => /\ lastOp'.outcome = "not_found"
           /\ lastOp'.result = NoGraph
           /\ UNCHANGED <<dynamicGraphs, dynamicGraphBuilders, graphSelectionWords,
                          compiles>>]_vars

C11_Witness ==
    /\ lastOp.op = "getDynamicGraph"
    /\ lastOp.outcome = "not_found"
    /\ dynamicGraphBuilders[lastOp.name] = NoBuilder
    /\ \E m \in GraphNames : dynamicGraphBuilders[m] # NoBuilder

\* C12: the selection vocabulary has one entry for each name that has a
\* builder and none for another name; a successful registration sets the
\* entry of its name to the words of its spec, the empty list when the spec
\* has none, and leaves the other entries alone; no other step changes the
\* vocabulary.
C12_VocabularyFollowsRegistrations ==
    /\ [](/\ Keys(graphSelectionWords) =
               {n \in GraphNames : dynamicGraphBuilders[n] # NoBuilder}
          /\ \A i, j \in DOMAIN graphSelectionWords :
                graphSelectionWords[i].name = graphSelectionWords[j].name => i = j)
    /\ [][IF IsRegistration(lastOp') /\ lastOp'.outcome = "registered"
          THEN /\ \E i \in DOMAIN graphSelectionWords' :
                     /\ graphSelectionWords'[i].name = lastOp'.item.name
                     /\ graphSelectionWords'[i].words =
                           IF lastOp'.item.selectionWords = NoSelectionWords
                           THEN <<>>
                           ELSE lastOp'.item.selectionWords
               /\ \A i \in DOMAIN graphSelectionWords :
                     graphSelectionWords[i].name # lastOp'.item.name =>
                        \E j \in DOMAIN graphSelectionWords' :
                           graphSelectionWords'[j] = graphSelectionWords[i]
          ELSE graphSelectionWords' = graphSelectionWords]_vars

C12_Witness ==
    /\ IsRegistration(lastOp)
    /\ lastOp.outcome = "registered"
    /\ lastOp.item.selectionWords = NoSelectionWords
    /\ Len(graphSelectionWords) = 3
    /\ \E i \in DOMAIN graphSelectionWords :
          /\ graphSelectionWords[i].name = lastOp.name
          /\ graphSelectionWords[i].words = <<>>

-----------------------------------------------------------------------------
(* Node configuration properties *)

\* C13: an update of a node's configuration sets the stepMap entry of that
\* name and changes neither another entry nor the builders, the compiled
\* graphs, the selection words or the number of compilations; and a node
\* function that calls the LLM does so with the configuration that stepMap
\* holds for its own name when it starts.
C13_NodeConfigHotSwap ==
    [][/\ lastOp'.op = "executeUpdateNodeParams" =>
             /\ stepMap'[lastOp'.name] = lastOp'.item
             /\ \A n \in StepNames \ {lastOp'.name} : stepMap'[n] = stepMap[n]
             /\ UNCHANGED <<dynamicGraphBuilders, dynamicGraphs, graphSelectionWords,
                            compiles>>
       /\ \A r \in DOMAIN requests :
             \A node \in nodeFuctionMap :
                (/\ requests'[r].cpId # requests[r].cpId
                 /\ requests'[r].pc = "stream"
                 /\ node \in DOMAIN requests'[r].tasks
                 /\ StepKey(node) # "")
                   => requests'[r].llm[node] = stepMap[node]]_vars

\* C14: an update for a step name that is no registered node function is
\* answered with an error and leaves stepMap as it was.
C14_UnknownNodeConfigRejected ==
    [][(lastOp'.op = "executeUpdateNodeParams" /\ lastOp'.name \notin nodeFuctionMap)
          => (lastOp'.response = "error" /\ stepMap' = stepMap)]_vars

\* C32: a node function that calls the LLM does so with the configuration
\* that stepMap holds under the name of the node when it starts, and that
\* configuration is defined.
C32_NodeUsesOwnConfig ==
    [][\A r \in DOMAIN requests :
          \A node \in nodeFuctionMap :
             (/\ requests'[r].cpId # requests[r].cpId
              /\ requests'[r].pc = "stream"
              /\ node \in DOMAIN requests'[r].tasks
              /\ StepKey(node) # "")
                => /\ stepMap[node] # NoStepData
                   /\ requests'[r].llm[node].model = stepMap[node].model
                   /\ requests'[r].llm[node].temperature = stepMap[node].temperature]_vars

\* concurrentImpactAnalysisNode runs with the configuration that an update
\* stored for impactAnalysisNode, while its own entry is the loaded one.
C32_Witness ==
    /\ stepMap["impactAnalysisNode"] \in StepDatas
    /\ stepMap["concurrentImpactAnalysisNode"] = LoadedStepData
    /\ \E r \in DOMAIN requests :
          /\ requests[r].pc = "stream"
          /\ "concurrentImpactAnalysisNode" \in DOMAIN requests[r].tasks
          /\ requests[r].tasks["concurrentImpactAnalysisNode"] = "running"
          /\ requests[r].llm["concurrentImpactAnalysisNode"] = stepMap["impactAnalysisNode"]

-----------------------------------------------------------------------------
(* Routing properties *)

IsRoute(op) == op.op = "route"

\* The positions of an entry's selection words that the message contains.
Hits(entry, message) ==
    {i \in DOMAIN entry.words : Includes(message, entry.words[i])}

RouteScore(entry) ==
    Score(entry, lastOp.item.message, lastOp.item.counts, lastOp.item.now)

PlaceOf(order, name) ==
    IF name \in Range(order) THEN CHOOSE i \in DOMAIN order : order[i] = name ELSE 0

\* The place of a graph name in the vocabulary.
EntryOf(name) ==
    CHOOSE i \in DOMAIN graphSelectionWords : graphSelectionWords[i].name = name

\* The registered names with the greatest score of the routed message.
Greatest ==
    {graphSelectionWords[i].name : i \in
        {i \in DOMAIN graphSelectionWords :
            \A j \in DOMAIN graphSelectionWords :
               RouteScore(graphSelectionWords[j]) <= RouteScore(graphSelectionWords[i])}}

\* n comes before m when the keys of the vocabulary object are listed: a name
\* that is a whole number comes before every other name and whole numbers
\* come in ascending order; the other names come in the order of their first
\* registration.
KeyBefore(n, m) ==
    IF IndexOfKey(n) >= 0
    THEN IndexOfKey(m) < 0 \/ IndexOfKey(n) < IndexOfKey(m)
    ELSE IndexOfKey(m) < 0
         /\ PlaceOf(registrationOrder, n) < PlaceOf(registrationOrder, m)

\* C16: the router returns a graph with the greatest score, and of several
\* graphs with the greatest score the one that comes first when the keys of
\* the vocabulary are listed: whole-number names in ascending order, then
\* the other names in the order of their first registration (registering a
\* name again does not move it).
C16_GreatestScoreFirstKeyWins ==
    /\ Keys(graphSelectionWords) = Range(registrationOrder)
    /\ (IsRoute(lastOp) /\ graphSelectionWords # <<>>) =>
          /\ lastOp.name \in Greatest
          /\ \A n \in Greatest \ {lastOp.name} : KeyBefore(lastOp.name, n)

\* C16 as stated: of several graphs with the greatest score the router
\* returns the one registered first.
C16_GreatestScoreFirstRegisteredWins ==
    (IsRoute(lastOp) /\ graphSelectionWords # <<>>) =>
       /\ lastOp.name \in Greatest
       /\ \A n \in Greatest \ {lastOp.name} :
             PlaceOf(registrationOrder, lastOp.name) < PlaceOf(registrationOrder, n)

\* Two graphs share a greatest score above 0 and the one returned, with a
\* whole-number name, was first registered after the other one.
C16_Witness ==
    /\ IsRoute(lastOp)
    /\ Cardinality(Greatest) = 2
    /\ lastOp.name \in Greatest
    /\ RouteScore(graphSelectionWords[EntryOf(lastOp.name)]) > 0
    /\ \E n \in Greatest :
          /\ PlaceOf(registrationOrder, n) < PlaceOf(registrationOrder, lastOp.name)
          /\ KeyBefore(lastOp.name, n)

\* C17: when the registry has a graph the router returns the name of a
\* registered graph, whatever graph types the history holds, and when every
\* registered graph scores 0 it returns the first graph of the vocabulary.
C17_ZeroScoreStillEligible ==
    (IsRoute(lastOp) /\ graphSelectionWords # <<>>) =>
       /\ lastOp.name \in Keys(graphSelectionWords)
       /\ (\A i \in DOMAIN graphSelectionWords :
              RouteScore(graphSelectionWords[i]) = 0)
             => lastOp.name = graphSelectionWords[1].name

\* Two registered graphs score 0 while the history holds threads of a graph
\* type that is not registered.
C17_Witness ==
    /\ IsRoute(lastOp)
    /\ Len(graphSelectionWords) = 2
    /\ \A i \in DOMAIN graphSelectionWords : RouteScore(graphSelectionWords[i]) = 0
    /\ DOMAIN lastOp.item.counts \ Keys(graphSelectionWords) # {}
    /\ lastOp.name = graphSelectionWords[1].name

-----------------------------------------------------------------------------
(* Thread resolution properties *)

\* The request has its thread resolved in this step.
Resolves(r) ==
    /\ r \in DOMAIN requests
    /\ requests[r].pc = "selectGraph"
    /\ requests'[r].pc = "getDynamicGraph"

\* The places of the store, among the first k, with a record of the user and
\* the graph type.
RecordsOf(st, k, userId, graphType) ==
    {i \in 1..k : st[i].userId = userId /\ st[i].graphType = graphType}

\* C19: when the store held a record of the user and the selected graph type
\* at the time the summary of a request was made, resolving the thread of
\* the request returns the threadId and rootThreadId of such a record, adds
\* no record, and leaves that record with a lastUpdatedAt not earlier than
\* before.
C19_ThreadReuse ==
    [][\A r \in DOMAIN requests :
          LET req == requests[r]
              had == RecordsOf(store, req.summaryAt, req.userId, requests'[r].graphType)
          IN (Resolves(r) /\ had # {}) =>
                /\ Len(store') = Len(store)
                /\ \E i \in had :
                      /\ requests'[r].threadId = store[i].threadId
                      /\ requests'[r].rootId = store[i].rootThreadId
                      /\ store'[i].threadId = store[i].threadId
                      /\ store'[i].lastUpdatedAt >= store[i].lastUpdatedAt]_vars

\* The second request of a user has been resolved to the thread that the
\* first request made, and the record of that thread was touched at a later
\* time than it was made.
C19_Witness ==
    /\ Len(requests) = 2
    /\ Len(store) = 1
    /\ requests[1].userId = requests[2].userId
    /\ requests[2].pc = "getDynamicGraph"
    /\ requests[2].summaryAt = 1
    /\ requests[2].threadId = requests[1].threadId
    /\ requests[2].rootId = requests[1].rootId
    /\ store[1].threadId = requests[2].threadId
    /\ store[1].lastUpdatedAt > store[1].createdAt

\* C20: when no request arrives before the requests before it are answered,
\* the store never holds two records of one user and one graph type, and
\* resolving the thread of a request whose user has a record of the selected
\* graph type adds no record.
C20_SequentialRequestsKeepOneRecord ==
    /\ [](\A i, j \in DOMAIN store :
             (store[i].userId = store[j].userId
              /\ store[i].graphType = store[j].graphType) => i = j)
    /\ [][\A r \in DOMAIN requests :
             (/\ Resolves(r)
              /\ RecordsOf(store, Len(store), requests[r].userId,
                           requests'[r].graphType) # {})
                => Len(store') = Len(store)]_vars

\* Two requests of one user, one after the other, were routed to the same
\* graph type and the store holds one record.
C20_Witness ==
    /\ Len(requests) = 2
    /\ \A r \in DOMAIN requests : requests[r].pc = "done"
    /\ requests[1].userId = requests[2].userId
    /\ requests[1].graphType = requests[2].graphType
    /\ requests[1].message # requests[2].message
    /\ Len(store) = 1

\* The thread ids and root ids of the records of a store.
IdsOf(st) ==
    {st[i].threadId : i \in DOMAIN st} \cup {st[i].rootThreadId : i \in DOMAIN st}

-----------------------------------------------------------------------------
(* Thread store properties *)

IsSummary(op) == op.op = "findThreadTypeCountsByUser"

\* The places of the store with a record of the user and the graph type.
PlacesOf(userId, graphType) == RecordsOf(store, Len(store), userId, graphType)

\* C22: the summary of a user has an entry for exactly the graph types of
\* the user's records; the count of an entry is the number of the user's
\* records of the type, its lastUpdatedAt is the latest lastUpdatedAt among
\* them, and its thread id and root id are those of the first record in
\* store order that has this latest time.
C22_SummaryPerGraphType ==
    IsSummary(lastOp) =>
       LET counts == lastOp.result
           userId == lastOp.name
       IN /\ DOMAIN counts =
                {store[i].graphType : i \in {j \in DOMAIN store : store[j].userId = userId}}
          /\ \A g \in DOMAIN counts :
                LET places == PlacesOf(userId, g)
                    latest == {i \in places :
                                 \A j \in places :
                                    store[j].lastUpdatedAt <= store[i].lastUpdatedAt}
                    first == Min(latest)
                IN /\ counts[g].count = Cardinality(places)
                   /\ counts[g].lastUpdatedAt = store[first].lastUpdatedAt
                   /\ counts[g].lastUpdatedThreadId = store[first].threadId
                   /\ counts[g].lastUpdatedRootId = store[first].rootThreadId

\* The user has two records of a graph type with the same latest time, the
\* summary carries the ids of the first of them, and another user has a
\* record too.
C22_Witness ==
    /\ IsSummary(lastOp)
    /\ Len(store) = 3
    /\ \E g \in DOMAIN lastOp.result :
          /\ lastOp.result[g].count = 2
          /\ \E i, j \in PlacesOf(lastOp.name, g) :
                /\ i < j
                /\ store[i].lastUpdatedAt = store[j].lastUpdatedAt
                /\ store[i].threadId # store[j].threadId
                /\ lastOp.result[g].lastUpdatedThreadId = store[i].threadId
    /\ \E i \in DOMAIN store : store[i].userId # lastOp.name

\* A record but for its lastUpdatedAt.
Fixed(record) ==
    [id |-> record.id, userId |-> record.userId, threadId |-> record.threadId,
     rootThreadId |-> record.rootThreadId, graphType |-> record.graphType,
     createdAt |-> record.createdAt]

\* C23: no two records of the store have the same userId and threadId; a
\* step removes no record and changes no field of a record other than
\* lastUpdatedAt; and createThread for a userId and threadId that have a
\* record returns that record and leaves the store as it was.
C23_ThreadRecordsKeepIdentity ==
    /\ [](\A i, j \in DOMAIN store :
             (store[i].userId = store[j].userId /\ store[i].threadId = store[j].threadId)
                => i = j)
    /\ [][/\ Len(store') >= Len(store)
          /\ \A i \in DOMAIN store : Fixed(store'[i]) = Fixed(store[i])
          /\ (/\ lastOp'.op = "createThread"
              /\ \E i \in DOMAIN store :
                    /\ store[i].userId = lastOp'.item.userId
                    /\ store[i].threadId = lastOp'.item.threadId)
                => /\ store' = store
                   /\ \E i \in DOMAIN store : lastOp'.result = store[i]
                   /\ lastOp'.result.userId = lastOp'.item.userId
                   /\ lastOp'.result.threadId = lastOp'.item.threadId]_vars

\* createThread was called with another graph type for the userId and
\* threadId of a record that was touched after it was made, and returned that
\* record.
C23_Witness ==
    /\ lastOp.op = "createThread"
    /\ lastOp.result.graphType # lastOp.item.graphType
    /\ lastOp.result.lastUpdatedAt > lastOp.result.createdAt
    /\ \E i \in DOMAIN store : store[i] = lastOp.result
    /\ Len(store) = MaxRecords

\* C33: updateLastUpdatedAt for a user and thread id that have no record
\* succeeds, stores a record under that key with the time of the call and
\* returns it.
C33_UpdateOfMissingRecordCreatesIt ==
    [][(/\ lastOp'.op = "updateLastUpdatedAtFor"
        /\ ~HasKey(store, makeKey(lastOp'.item.userId, lastOp'.item.threadId)))
       => /\ lastOp'.outcome = "ok"
          /\ HasKey(store', makeKey(lastOp'.item.userId, lastOp'.item.threadId))
          /\ lastOp'.result.lastUpdatedAt = clock'
          /\ lastOp'.result \in Range(store')]_vars

\* updateLastUpdatedAt was called for a key without a record, while the
\* store holds records of other keys: it threw and stored nothing.
C33_Witness ==
    /\ lastOp.op = "updateLastUpdatedAtFor"
    /\ ~HasKey(store, makeKey(lastOp.item.userId, lastOp.item.threadId))
    /\ lastOp.outcome = "throws"
    /\ lastOp.error = "TypeError"
    /\ store # <<>>

-----------------------------------------------------------------------------
(* Failure properties *)

\* C24: from the moment a node function of a run has thrown, the run writes
\* no checkpoint and starts no node; and the run ends as Failed with the
\* error event as the last thing the caller gets, the node that threw having
\* been started once and no node after it at all, while the checkpoint of the
\* thread holds the state the failed step started from.
C24_NodeFailureAborts ==
    /\ [](\A r \in DOMAIN requests :
             LET req == requests[r] IN
             (req.error # "" /\ req.pc = "done") =>
                /\ req.outcome = "Failed"
                /\ req.events[Len(req.events)] = {[type |-> "error", node |-> req.error]}
                /\ \A k \in 1..(Len(req.events) - 1) :
                      \A e \in req.events[k] : e.type # "error"
                /\ req.ran[req.error] = 1
                /\ \A n \in After(req.graph, req.error) : req.ran[n] = 0
                /\ req.threadId \in DOMAIN checkpoints
                /\ checkpoints[req.threadId].id = req.cpId =>
                      checkpoints[req.threadId].values = req.channels)
    /\ [][\A r \in DOMAIN requests :
             (requests[r].pc = "stream" /\ requests'[r].error # "") =>
                /\ checkpoints' = checkpoints
                /\ requests'[r].ran = requests[r].ran
                /\ requests'[r].channels = requests[r].channels]_vars

\* A run of the concurrent graph on a new thread has failed in the step of
\* the three analyses after one of the other two had returned its partial
\* state and the third was stopped; the checkpoint has none of their results.
C24_Witness ==
    \E r \in DOMAIN requests :
       /\ requests[r].pc = "done"
       /\ requests[r].outcome = "Failed"
       /\ requests[r].newThread
       /\ requests[r].error = "concurrentNoveltyAnalysisNode"
       /\ requests[r].tasks["concurrentFeasibilityAnalysisNode"] = "done"
       /\ requests[r].tasks["concurrentImpactAnalysisNode"] = "aborted"
       /\ checkpoints[requests[r].threadId].values.analysisResults = {"inputAnalysis"}
       /\ requests[r].ran["concurrentSynthesisNode"] = 0

\* C25: every request that has ended has ended as Completed, Suspended or
\* Failed, its events are a finite sequence, and when it failed, also before
\* the stream started, the last event the caller got is the error event.
C25_EveryRequestEndsWithOutcome ==
    \A r \in DOMAIN requests :
       LET req == requests[r] IN
       req.pc = "done" =>
          /\ req.outcome \in {"Completed", "Suspended", "Failed"}
          /\ (req.error # "") =>
                /\ req.outcome = "Failed"
                /\ req.events # <<>>
                /\ [type |-> "error", node |-> req.error] \in req.events[Len(req.events)]

\* A request met a registry without graphs: a thread record without graph
\* type was stored and the request ended without any event.
C25_Witness ==
    \E r \in DOMAIN requests :
       /\ graphSelectionWords = <<>>
       /\ requests[r].pc = "done"
       /\ requests[r].graphType = NoGraphType
       /\ requests[r].events = <<>>
       /\ \E i \in DOMAIN store : store[i].graphType = NoGraphType

-----------------------------------------------------------------------------
(* State reduction properties *)

\* C26: two updates of a list field through the concat reducer give the
\* state followed by the first and then the second update, the same as their
\* concatenation given as one update; two partial results with no key in
\* common give the same analysisResults in either order, and a key that both
\* have ends with the value of the partial applied last, while a key that
\* neither has keeps the value of the state.
C26_ReducerLaws ==
    /\ lastOp.op = "concatReducer" =>
          /\ lastOp.result.oneByOne = lastOp.result.atOnce
          /\ lastOp.result.oneByOne = lastOp.item.s \o lastOp.item.a \o lastOp.item.b
    /\ lastOp.op = "spreadReducer" =>
          LET s == lastOp.item.s
              a == lastOp.item.a
              b == lastOp.item.b
          IN /\ (DOMAIN a \cap DOMAIN b = {}) => lastOp.result.ab = lastOp.result.ba
             /\ DOMAIN lastOp.result.ab = DOMAIN s \cup DOMAIN a \cup DOMAIN b
             /\ \A k \in DOMAIN b : lastOp.result.ab[k] = b[k]
             /\ \A k \in DOMAIN a : lastOp.result.ba[k] = a[k]
             /\ \A k \in DOMAIN a \ DOMAIN b : lastOp.result.ab[k] = a[k]
             /\ \A k \in DOMAIN s \ (DOMAIN a \cup DOMAIN b) : lastOp.result.ab[k] = s[k]

\* Two partial results with different values for a key that the state has
\* too: the orders differ and each ends with the value applied last.
C26_Witness ==
    /\ lastOp.op = "spreadReducer"
    /\ \E k \in DOMAIN lastOp.item.a \cap DOMAIN lastOp.item.b \cap DOMAIN lastOp.item.s :
          /\ lastOp.item.a[k] # lastOp.item.b[k]
          /\ lastOp.result.ab[k] = lastOp.item.b[k]
          /\ lastOp.result.ba[k] = lastOp.item.a[k]
    /\ lastOp.result.ab # lastOp.result.ba

\* How often x occurs in a sequence.
Occurrences(seq, x) == Cardinality({i \in DOMAIN seq : seq[i] = x})

\* The branches of the concurrent research graph with the key, the step name
\* and the message of each.
Branches ==
    {[key |-> "noveltyAnalysis", step |-> "concurrent_novelty_analysis",
      message |-> AIMessage("Novelty Analysis")],
     [key |-> "feasibilityAnalysis", step |-> "concurrent_feasibility_analysis",
      message |-> AIMessage("Feasibility Analysis")],
     [key |-> "impactAnalysis", step |-> "concurrent_impact_analysis",
      message |-> AIMessage("Impact Analysis")]}

\* The request runs the synthesis node of the concurrent research graph.
AtSynthesis(req) ==
    /\ req.pc = "stream"
    /\ req.graph.annotation = "ConcurrentResearchGraphAnnotation"
    /\ "concurrentSynthesisNode" \in DOMAIN req.tasks

StepReturned(req) ==
    /\ req.pc = "stream"
    /\ \A n \in DOMAIN req.tasks : req.tasks[n] = "done"

\* The tasks of the step that wrote to the field.
Writers(req, f) == {n \in DOMAIN req.writes : f \in DOMAIN req.writes[n]}

\* C28: when the tasks of a step have returned, the state after the step has
\* every field that no task wrote as it was, a field with a reducer that one
\* task wrote as the reducer makes it of the old value and the written one,
\* and a field without a reducer with the value one of its writers wrote,
\* also when several tasks wrote it; that state is the checkpoint.
C28_PartialChangesOnlyItsFields ==
    [][\A r \in DOMAIN requests :
          LET req == requests[r]
              annotation == req.graph.annotation
          IN (StepReturned(req) /\ requests'[r] # req) =>
                /\ \A f \in DOMAIN req.channels :
                      /\ Writers(req, f) = {} =>
                            requests'[r].channels[f] = req.channels[f]
                      /\ (Writers(req, f) # {} /\ NoReducer(annotation, f)) =>
                            \E n \in Writers(req, f) :
                               requests'[r].channels[f] = req.writes[n][f]
                      /\ (Cardinality(Writers(req, f)) = 1 /\ ~NoReducer(annotation, f)) =>
                            \E n \in Writers(req, f) :
                               requests'[r].channels[f] =
                                  IF f = "analysisResults"
                                  THEN req.channels[f] \cup req.writes[n][f]
                                  ELSE req.channels[f] \o req.writes[n][f]
                /\ checkpoints'[req.threadId].values = requests'[r].channels]_vars

\* The three branches of a concurrent graph whose annotation has no reducer
\* for analysisResults have returned and the run has ended with the error.
C28_Witness ==
    \E r \in DOMAIN requests :
       /\ requests[r].pc = "done"
       /\ requests[r].error = "InvalidUpdateError"
       /\ requests[r].graph.annotation = "DefaultGraphAnnotation"
       /\ Cardinality(Writers(requests[r], "analysisResults")) = 3
       /\ requests[r].channels.analysisResults = {"inputAnalysis"}

\* C29: getInitialStateRuntime returns a state for every graph type; for a
\* graph type that is none of GRAPH_TYPES the state has the fields of the
\* default state, with empty analysisResults and currentStep; and for every
\* graph type the state has the thread id, the root id, the user id and the
\* messages it was given.
C29_InitialStateFallsBackToDefault ==
    lastOp.op = "getInitialStateRuntime" =>
       /\ lastOp.outcome = "ok"
       /\ lastOp.name \notin {"monetizationGraph", "researchGraph",
                              "concurrentResearchGraph"} =>
             /\ DOMAIN lastOp.result = {"activeThreadId", "analysisResults", "currentStep",
                                        "messages", "rootId", "userId"}
             /\ lastOp.result.analysisResults = {}
             /\ lastOp.result.currentStep = ""
       /\ lastOp.result.activeThreadId = lastOp.item.ids.activeThreadId
       /\ lastOp.result.rootId = lastOp.item.ids.rootId
       /\ lastOp.result.userId = lastOp.item.ids.userId
       /\ lastOp.result.messages = lastOp.item.msgs

\* The initial state of the name of a graph that was registered at run time,
\* with two messages.
C29_Witness ==
    /\ lastOp.op = "getInitialStateRuntime"
    /\ lastOp.name = "7"
    /\ Len(lastOp.item.msgs) = 2
    /\ lastOp.result.messages = lastOp.item.msgs
    /\ "currentStep" \in DOMAIN lastOp.result

-----------------------------------------------------------------------------
(* Checkpoint properties *)

\* The requests other than r that have streamed on the thread of r.
SharingThread(r) ==
    {q \in DOMAIN requests \ {r} :
        requests[q].cpId > 0 /\ requests[q].threadId = requests[r].threadId}

\* C30: a step changes the checkpoint of no thread but the one of the request
\* that takes it; and while no other request has streamed on the thread of a
\* request, the latest checkpoint of that thread is the one this request
\* saved last: its values are the state the request computed, and its
\* pending interrupt is the one of the gate the request stopped at, or none
\* while the request streams or after it completed.
C30_CheckpointsKeyedByThread ==
    /\ [][\A t \in DOMAIN checkpoints' :
             GetState(checkpoints', t) # GetState(checkpoints, t) =>
                \E r \in DOMAIN requests :
                   /\ requests[r].threadId = t
                   /\ requests'[r] # requests[r]
                   /\ \A q \in DOMAIN requests \ {r} : requests'[q] = requests[q]]_vars
    /\ [](\A r \in DOMAIN requests :
             LET req == requests[r] IN
             (req.cpId > 0 /\ SharingThread(r) = {}) =>
                /\ req.threadId \in DOMAIN checkpoints
                /\ checkpoints[req.threadId].id = req.cpId
                /\ checkpoints[req.threadId].values = req.channels
                /\ checkpoints[req.threadId].interrupt =
                      IF req.pc = "done" /\ req.outcome = "Suspended"
                      THEN InterruptPayload(
                              CHOOSE n \in DOMAIN req.tasks : req.tasks[n] = "interrupted",
                              req.channels)
                      ELSE NoInterrupt)

\* One request is suspended at its gate and another one, of the same graph
\* type on another thread, has saved checkpoints of its own since.
C30_Witness ==
    \E r, q \in DOMAIN requests :
       /\ requests[r].threadId # requests[q].threadId
       /\ requests[r].graphType = requests[q].graphType
       /\ requests[r].pc = "done"
       /\ requests[r].outcome = "Suspended"
       /\ requests[q].pc = "stream"
       /\ requests[q].cpId >= 2
       /\ r < q
       /\ checkpoints[requests[r].threadId].interrupt.type = "approval_gate"
       /\ checkpoints[requests[q].threadId].interrupt = NoInterrupt

-----------------------------------------------------------------------------
(* POST /execute-current properties *)

\* Request q is a follow-up of request r: it arrived after r had paused the
\* research workflow at the approval gate, from the same user, with a
\* message and the userId only.
FollowsUp(q, r) ==
    /\ r \in requests[q].doneBefore
    /\ requests[r].outcome = "Suspended"
    /\ requests[r].graph.name = "RESEARCH"
    /\ requests[q].userId = requests[r].userId
    /\ requests[q].bodyThreadId = NoThreadId

\* C31: a follow-up of a request that paused the research workflow at the
\* approval gate runs on the thread of that request and, once it has ended,
\* has completed the workflow without running a node before the gate again.
C31_FollowUpResumesPausedWorkflow ==
    \A r, q \in DOMAIN requests :
       FollowsUp(q, r) =>
          /\ requests[q].threadId = requests[r].threadId
          /\ requests[q].pc = "done" =>
                /\ requests[q].outcome = "Completed"
                /\ requests[q].graph.name = "RESEARCH"
                /\ requests[q].ran["input_analysis"] = 0

\* The follow-up has ended: it ran the research workflow on a thread of its
\* own from the start and paused at the approval gate.
C31_Witness ==
    \E r, q \in DOMAIN requests :
       /\ FollowsUp(q, r)
       /\ requests[q].pc = "done"
       /\ requests[q].newThread
       /\ requests[q].threadId # requests[r].threadId
       /\ requests[q].outcome = "Suspended"
       /\ requests[q].message = "Yes, proceed"
       /\ requests[q].graph.name = "RESEARCH"
       /\ requests[q].ran["input_analysis"] = 1
       /\ checkpoints[requests[r].threadId].interrupt.type = "approval_gate"

-----------------------------------------------------------------------------
(* Scoring properties *)

\* The points of the first k selection words when every occurrence of a
\* plain word in the message counts, and a word that starts with "@" once.
RECURSIVE OccurrencePoints(_, _, _)
OccurrencePoints(arr, k, message) ==
    IF k = 0 THEN 0
    ELSE OccurrencePoints(arr, k - 1, message)
         + (IF StartsWithAt(arr[k])
            THEN (IF Includes(message, arr[k]) THEN pointsForKeyWordMatch ELSE 0)
            ELSE Occurrences(Words(message), arr[k]) * pointsForWordMatch)

\* C34: when the router is asked, the points that a graph has for the words
\* of the message are pointsForWordMatch for each occurrence of one of its
\* plain selection words in the message and pointsForKeyWordMatch for each
\* of its selection words in the message that start with "@".
C34_EveryOccurrenceCounts ==
    IsRoute(lastOp) =>
       \A i \in DOMAIN graphSelectionWords :
          LET entry == graphSelectionWords[i]
          IN WordScore(entry.words, Len(entry.words), lastOp.item.message)
                = OccurrencePoints(entry.words, Len(entry.words), lastOp.item.message)

\* The router was asked for a message with the selection word of a graph
\* twice, and the graph has the points of one match for it.
C34_Witness ==
    /\ IsRoute(lastOp)
    /\ \E i \in DOMAIN graphSelectionWords :
          LET entry == graphSelectionWords[i]
          IN /\ entry.words = <<"concurrent">>
             /\ Occurrences(Words(lastOp.item.message), "concurrent") = 2
             /\ WordScore(entry.words, Len(entry.words), lastOp.item.message)
                   = pointsForWordMatch

-----------------------------------------------------------------------------
(* Initial state properties *)

-----------------------------------------------------------------------------
(* New thread properties *)

\* Request r starts its stream in this step.
StartsStream(r) ==
    /\ requests[r].pc = "getDynamicGraph"
    /\ requests'[r].pc = "stream"

\* C36: a request that starts its stream is taken for a new thread exactly
\* when the checkpoint store holds no checkpoint of its thread id, whether
\* or not the summary it read held a thread record of the graph type; for a
\* new thread the first checkpoint holds the initial state with the inbound
\* message as its only message, for any other thread the state of the
\* latest checkpoint with the inbound message appended to its messages.
C36_NewThreadIffNoCheckpoint ==
    [][\A r \in DOMAIN requests :
          StartsStream(r) =>
             LET req == requests[r]
                 saved == checkpoints'[req.threadId].values
             IN /\ requests'[r].newThread <=> req.threadId \notin DOMAIN checkpoints
                /\ req.threadId \notin DOMAIN checkpoints =>
                      /\ saved.messages = <<HumanMessage(req.message)>>
                      /\ saved.analysisResults = {}
                      /\ saved.currentStep = ""
                      /\ saved.currentSteps = <<>>
                /\ req.threadId \in DOMAIN checkpoints =>
                      LET before == checkpoints[req.threadId].values
                      IN /\ saved.messages = before.messages \o <<HumanMessage(req.message)>>
                         /\ saved.analysisResults = before.analysisResults
                         /\ saved.currentStep = before.currentStep
                         /\ saved.currentSteps = before.currentSteps]_vars

\* A request found the thread record of another request that has not yet
\* saved a checkpoint, took the thread of that record, and was started as a
\* new thread.
C36_Witness ==
    \E r, q \in DOMAIN requests :
       /\ r # q
       /\ requests[q].pc = "getDynamicGraph"
       /\ requests[r].pc = "stream"
       /\ requests[r].threadId = requests[q].threadId
       /\ requests[r].graphType \in DOMAIN requests[r].counts
       /\ requests[r].newThread
       /\ requests[r].cpId = 1
       /\ checkpoints[requests[r].threadId].values.messages
             = <<HumanMessage(requests[r].message)>>

-----------------------------------------------------------------------------
(* Routing properties of POST /execute-current *)

HasResearch(cps, id) == researchThreadId(id) \in DOMAIN cps
HasMonetization(cps, id) == monetizationThreadId(id) \in DOMAIN cps

\* C37: a request whose thread has no checkpoint runs the monetization graph
\* exactly when its message contains "@monetize" and the research graph
\* otherwise; a request whose thread has a checkpoint runs the graph of that
\* checkpoint and saves no checkpoint of the other graph; and no thread id
\* ever has a checkpoint of both graphs.
C37_CurrentRouting ==
    /\ [](\A id \in ClientThreadIds \cup {"thread_1", "thread_2"} :
             ~(HasResearch(checkpoints, id) /\ HasMonetization(checkpoints, id)))
    /\ [][Len(requests') = Len(requests) + 1 =>
             LET req == requests'[Len(requests')]
                 id == req.activeThreadId
             IN /\ (~HasResearch(checkpoints, id) /\ ~HasMonetization(checkpoints, id)) =>
                      /\ IncludesMonetize(req.message) =>
                            /\ req.graph.name = "MONETIZATION"
                            /\ req.threadId = monetizationThreadId(id)
                      /\ ~IncludesMonetize(req.message) =>
                            /\ req.graph.name = "RESEARCH"
                            /\ req.threadId = researchThreadId(id)
                /\ HasResearch(checkpoints, id) =>
                      /\ req.graph.name = "RESEARCH"
                      /\ req.threadId = researchThreadId(id)
                /\ HasMonetization(checkpoints, id) =>
                      /\ req.graph.name = "MONETIZATION"
                      /\ req.threadId = monetizationThreadId(id)
                /\ HasResearch(checkpoints', id) <=> req.graph.name = "RESEARCH"
                /\ HasMonetization(checkpoints', id) <=> req.graph.name = "MONETIZATION"]_vars

\* A thread that started with the research graph was sent a message with
\* "@monetize" and ran the research graph again.
C37_Witness ==
    \E r, q \in DOMAIN requests :
       /\ r < q
       /\ requests[r].activeThreadId = requests[q].activeThreadId
       /\ ~IncludesMonetize(requests[r].message)
       /\ IncludesMonetize(requests[q].message)
       /\ requests[q].graph.name = "RESEARCH"
       /\ ~requests[q].newThread
       /\ HasResearch(checkpoints, requests[q].activeThreadId)
       /\ ~HasMonetization(checkpoints, requests[q].activeThreadId)

-----------------------------------------------------------------------------
(* Isolation properties of POST /execute-current *)

\* C38: a request that runs on a thread with a checkpoint is a request of
\* the user whose request created the thread.
C38_ThreadsOfOtherUsersUntouched ==
    \A q \in DOMAIN requests :
       ~requests[q].newThread =>
          requests[q].found.values.userId = requests[q].userId

\* A request of userB ran on the thread that a request of userA had left
\* at the approval gate, and has saved a checkpoint of that thread with its
\* own message.
C38_Witness ==
    \E r, q \in DOMAIN requests :
       /\ requests[r].userId = "userA"
       /\ requests[q].userId = "userB"
       /\ requests[q].threadId = requests[r].threadId
       /\ requests[q].found.values.userId = "userA"
       /\ requests[q].found.interrupt.type = "approval_gate"
       /\ checkpoints[requests[q].threadId].values.userId = "userA"
       /\ \E i \in DOMAIN checkpoints[requests[q].threadId].values.messages :
             checkpoints[requests[q].threadId].values.messages[i]
                = HumanMessage(requests[q].message)
       /\ requests[q].message # requests[r].message

====
